---- MODULE Spec2Model ----
(***************************************************************************)
(* Model of the reporting pipeline of personas-desaparecidas:              *)
(* edad_sexo.py, municipal.py and estatal.py.  Every report function reads *)
(* the input files (data.csv, assets/poblacion.csv, the five-year          *)
(* population tables, timeseries_victimas.csv) and computes a table; the   *)
(* model keeps the input files and the locals of the last report run.      *)
(***************************************************************************)
EXTENDS Integers, Sequences, FiniteSets, TLC

VARIABLES
    data,        \* ./data.csv: the sequence of rows of the victim table
    poblacion,   \* ./assets/poblacion.csv: the sequence of its rows
    quinquenal,  \* ./assets/poblacion_quinquenal/{hombres,mujeres}.csv
    victimas,    \* ./assets/timeseries_victimas.csv: sequence of rows
    salida,      \* the locals of the last report that ran
    archivos,    \* the images in the working directory, by file name
    invocaciones \* the invocations of estatal.crear_mapa that run by steps

vars == <<data, poblacion, quinquenal, victimas, salida, archivos, invocaciones>>

(***************************************************************************)
(* Cells.  read_csv yields a missing cell as NaN; every other cell of the  *)
(* victim table is a string.                                               *)
(***************************************************************************)
NaN == "NaN"
CONFIDENCIAL == "CONFIDENCIAL"

\* A table is a sequence of records, one per row.  A table built row by
\* row is evaluated once, as a tuple, before it is read.
tabla(f) == f \o <<>>

Min(S) == CHOOSE x \in S : \A y \in S : x <= y

Max(S) == CHOOSE x \in S : \A y \in S : x >= y

\* The numbers of a set in ascending order.
indice(S) ==
    tabla([k \in 1..Cardinality(S) |->
              CHOOSE x \in S : Cardinality({y \in S : y < x}) = k - 1])

\* The sum of column c of a table.
RECURSIVE Suma(_, _)
Suma(t, c) ==
    IF Len(t) = 0 THEN 0
    ELSE IF Len(t) = 1 THEN t[1][c]
    ELSE LET h == Len(t) \div 2
         IN  Suma(SubSeq(t, 1, h), c) + Suma(SubSeq(t, h + 1, Len(t)), c)

columna(t, c) == tabla([i \in 1..Len(t) |-> t[i][c]])

(***************************************************************************)
(* Floating point values of the rate tables: a finite rational n/d in      *)
(* lowest terms (d > 0), an infinity (n is its sign) or NaN.               *)
(***************************************************************************)
RECURSIVE GCD(_, _)
GCD(a, b) == IF b = 0 THEN a ELSE GCD(b, a % b)

Abs(x) == IF x < 0 THEN -x ELSE x

NaNf == [k |-> "nan", n |-> 0, d |-> 1]
Inf(s) == [k |-> "inf", n |-> s, d |-> 0]

Fin(n, d) ==
    LET g == GCD(Abs(n), d)
    IN  [k |-> "fin", n |-> n \div g, d |-> d \div g]

Num(n) == Fin(n, 1)

IsFin(x) == x.k = "fin"
IsNaNf(x) == x.k = "nan"
IsInf(x) == x.k = "inf"
Sign(x) == IF x.n > 0 THEN 1 ELSE IF x.n < 0 THEN -1 ELSE 0

\* x / y as IEEE-754 division does it: 0/0 and inf/inf are NaN, c/0 is an
\* infinity.  Populations and counts are never negative zero.
FDiv(x, y) ==
    IF IsNaNf(x) \/ IsNaNf(y) THEN NaNf
    ELSE IF IsInf(x) THEN (IF IsInf(y) THEN NaNf
                           ELSE Inf(Sign(x) * (IF y.n < 0 THEN -1 ELSE 1)))
    ELSE IF IsInf(y) THEN Num(0)
    ELSE IF y.n = 0 THEN (IF x.n = 0 THEN NaNf ELSE Inf(Sign(x)))
    ELSE IF y.n > 0 THEN Fin(x.n * y.d, x.d * y.n)
    ELSE Fin(-(x.n * y.d), x.d * (-y.n))

FMul(x, y) ==
    IF IsNaNf(x) \/ IsNaNf(y) THEN NaNf
    ELSE IF IsInf(x) \/ IsInf(y)
         THEN (IF Sign(x) * Sign(y) = 0 THEN NaNf ELSE Inf(Sign(x) * Sign(y)))
    ELSE Fin(x.n * y.n, x.d * y.d)

FAdd(x, y) ==
    IF IsNaNf(x) \/ IsNaNf(y) THEN NaNf
    ELSE IF IsInf(x) THEN (IF IsInf(y) /\ Sign(y) # Sign(x) THEN NaNf ELSE x)
    ELSE IF IsInf(y) THEN y
    ELSE Fin(x.n * y.d + y.n * x.d, x.d * y.d)

FNeg(x) == IF IsNaNf(x) THEN x ELSE [x EXCEPT !.n = -x.n]

FSub(x, y) == FAdd(x, FNeg(y))

\* x < y; every comparison with NaN is false.
FLt(x, y) ==
    IF IsNaNf(x) \/ IsNaNf(y) THEN FALSE
    ELSE IF IsInf(x) THEN Sign(x) < 0 /\ ~(IsInf(y) /\ Sign(y) < 0)
    ELSE IF IsInf(y) THEN Sign(y) > 0
    ELSE x.n * y.d < y.n * x.d

FLe(x, y) == ~IsNaNf(x) /\ ~IsNaNf(y) /\ ~FLt(y, x)

(***************************************************************************)
(* Dates.  pd.to_datetime(..., errors="coerce") turns a text that is a     *)
(* calendar date into a timestamp and every other cell (NaN included) into *)
(* NaT.  Only the year and the month of a timestamp are ever read.         *)
(***************************************************************************)
NaT == [y |-> 0, m |-> 0]

Fecha(y, m) == [y |-> y, m |-> m]

car(s, i) == SubSeq(s, i, i)

es_digito(c) == \E d \in 0..9 : ToString(d) = c

\* The number a text of digits writes, -1 for any other text.
RECURSIVE numero(_)
numero(s) ==
    IF Len(s) = 0 \/ ~es_digito(car(s, Len(s))) THEN -1
    ELSE LET u == CHOOSE d \in 0..9 : ToString(d) = car(s, Len(s))
         IN  IF Len(s) = 1 THEN u
             ELSE LET r == numero(SubSeq(s, 1, Len(s) - 1))
                  IN  IF r < 0 THEN -1 ELSE 10 * r + u

dias_del_mes(y, m) ==
    IF m \in {4, 6, 9, 11} THEN 30
    ELSE IF m # 2 THEN 31
    ELSE IF y % 4 = 0 /\ (y % 100 # 0 \/ y % 400 = 0) THEN 29 ELSE 28

\* The texts of the date columns are written YYYY-MM-DD; a text that is
\* not a calendar date, and a missing cell, are coerced to NaT.
to_datetime(s) ==
    IF Len(s) # 10 \/ car(s, 5) # "-" \/ car(s, 8) # "-" THEN NaT
    ELSE LET y == numero(SubSeq(s, 1, 4))
             m == numero(SubSeq(s, 6, 7))
             d == numero(SubSeq(s, 9, 10))
         IN  IF y >= 1 /\ m \in 1..12 /\ d >= 1 /\ d <= dias_del_mes(y, m)
             THEN Fecha(y, m) ELSE NaT

\* A fillna that prefers the registration date.
fillna_registro(a, b) == IF b # NaT THEN b ELSE a

\* Series.fillna(other): the other value where this one is missing.
fillna(a, b) == IF a = NaT THEN b ELSE a

(***************************************************************************)
(* df.groupby("ID_VICTIMA").last(): one row per identifier, in ascending   *)
(* order of identifier, each column holding the last non-null value of     *)
(* that column among the rows of the identifier (NaN when all are null).   *)
(***************************************************************************)
\* A last() that asks for two non-null values (min_count=2).
last_min_count_2(filas, c) ==
    LET nn == {i \in 1..Len(filas) : filas[i][c] # NaN}
    IN  IF Cardinality(nn) < 2 THEN NaN ELSE filas[Max(nn)][c]

\* A last value that skips the confidential cells as it skips the nulls.
last_sin_confidencial(filas, c) ==
    LET nn == {i \in 1..Len(filas) : filas[i][c] # NaN /\ filas[i][c] # CONFIDENCIAL}
    IN  IF nn = {} THEN NaN ELSE filas[Max(nn)][c]

last(filas, c) ==
    LET nn == {i \in 1..Len(filas) : filas[i][c] # NaN}
    IN  IF nn = {} THEN NaN ELSE filas[Max(nn)][c]

FilasDe(df, id) == SelectSeq(df, LAMBDA r : r.ID_VICTIMA = id)

Ids(df) == {df[i].ID_VICTIMA : i \in 1..Len(df)}

\* A deduplication that takes the victim of the first row of the file only.
groupby_primera_victima(df) ==
    IF Len(df) = 0 THEN <<>>
    ELSE LET fs == FilasDe(df, df[1].ID_VICTIMA)
         IN  <<[c \in DOMAIN df[1] |->
                   IF c = "ID_VICTIMA" THEN df[1].ID_VICTIMA ELSE last(fs, c)]>>

groupby_last(df) ==
    LET ids == indice(Ids(df))
    IN  tabla([i \in 1..Len(ids) |->
            LET fs == FilasDe(df, ids[i])
            IN  [ID_VICTIMA |-> ids[i],
                 SEXO |-> last(fs, "SEXO"),
                 FECHA_DESAPARICION |-> last(fs, "FECHA_DESAPARICION"),
                 FECHA_REGISTRO |-> last(fs, "FECHA_REGISTRO"),
                 FECHA_NACIMIENTO |-> last(fs, "FECHA_NACIMIENTO"),
                 CVE_ENT |-> last(fs, "CVE_ENT"),
                 CVE_MUN |-> last(fs, "CVE_MUN"),
                 ENTIDAD |-> last(fs, "ENTIDAD")]])

\* df.replace("CONFIDENCIAL", np.nan): every cell of every column.
limpiar(v) == IF v = CONFIDENCIAL THEN NaN ELSE v

\* A redaction put off until after the counts: the table is counted as read.
replace_despues(df) == df

\* A redaction of the column of the sex only.
replace_sexo(df) ==
    tabla([i \in 1..Len(df) |-> [df[i] EXCEPT !.SEXO = limpiar(df[i].SEXO)]])

replace(df) ==
    tabla([i \in 1..Len(df) |->
        [ID_VICTIMA |-> df[i].ID_VICTIMA,
         SEXO |-> limpiar(df[i].SEXO),
         FECHA_DESAPARICION |-> limpiar(df[i].FECHA_DESAPARICION),
         FECHA_REGISTRO |-> limpiar(df[i].FECHA_REGISTRO),
         FECHA_NACIMIENTO |-> limpiar(df[i].FECHA_NACIMIENTO),
         CVE_ENT |-> limpiar(df[i].CVE_ENT),
         CVE_MUN |-> limpiar(df[i].CVE_MUN),
         ENTIDAD |-> limpiar(df[i].ENTIDAD)]])

\* The to_datetime conversions followed by the fillna: the canonical
\* record, FECHA_DESAPARICION holding its resolved event date.
fechas(df) ==
    tabla([i \in 1..Len(df) |->
        [ID_VICTIMA |-> df[i].ID_VICTIMA,
         SEXO |-> df[i].SEXO,
         CVE_ENT |-> df[i].CVE_ENT,
         CVE_MUN |-> df[i].CVE_MUN,
         ENTIDAD |-> df[i].ENTIDAD,
         FECHA_REGISTRO |-> to_datetime(df[i].FECHA_REGISTRO),
         FECHA_NACIMIENTO |-> to_datetime(df[i].FECHA_NACIMIENTO),
         FECHA_DESAPARICION |->
             fillna(to_datetime(df[i].FECHA_DESAPARICION),
                    to_datetime(df[i].FECHA_REGISTRO))]])

\* A year filter that lets the records without a date through.
filtrar_anio_sin_fecha(df, anio) ==
    SelectSeq(df, LAMBDA r :
        r.FECHA_DESAPARICION = NaT \/ r.FECHA_DESAPARICION.y = anio)

\* df[df["FECHA_DESAPARICION"].dt.year == anio]: NaT has no year.
filtrar_anio(df, anio) ==
    SelectSeq(df, LAMBDA r :
        r.FECHA_DESAPARICION # NaT /\ r.FECHA_DESAPARICION.y = anio)

(***************************************************************************)
(* edad_sexo.py                                                            *)
(***************************************************************************)
EDADES ==
    << <<0, 4>>, <<5, 9>>, <<10, 14>>, <<15, 19>>, <<20, 24>>, <<25, 29>>,
       <<30, 34>>, <<35, 39>>, <<40, 44>>, <<45, 49>>, <<50, 54>>, <<55, 59>>,
       <<60, 64>>, <<65, 69>>, <<70, 74>>, <<75, 79>>, <<80, 84>>, <<85, 120>> >>

\* f"{a}-{b}" if a < 85 else the label of the open band (written ">=85" here)
etiqueta(a, b) == IF a < 85 THEN ToString(a) \o "-" \o ToString(b) ELSE ">=85"

\* The age in completed years: one less before the month of the birthday.
EDAD_cumplida(r) ==
    IF r.FECHA_DESAPARICION = NaT \/ r.FECHA_NACIMIENTO = NaT THEN NaNf
    ELSE Num(r.FECHA_DESAPARICION.y - r.FECHA_NACIMIENTO.y
             - (IF r.FECHA_DESAPARICION.m < r.FECHA_NACIMIENTO.m THEN 1 ELSE 0))

\* df["FECHA_DESAPARICION"].dt.year - df["FECHA_NACIMIENTO"].dt.year
EDAD(r) ==
    IF r.FECHA_DESAPARICION = NaT \/ r.FECHA_NACIMIENTO = NaT THEN NaNf
    ELSE Num(r.FECHA_DESAPARICION.y - r.FECHA_NACIMIENTO.y)

\* A band without its upper end.
between_abierto(x, a, b) == FLe(Num(a), x) /\ FLt(x, Num(b))

\* Series.between(a, b): both ends inclusive, false for NaN.
between(x, a, b) == FLe(Num(a), x) /\ FLe(x, Num(b))

\* final[columna] = serie: aligned on the index, NaN where the series has
\* no entry for the label.
alinear(serie, clave) == IF clave \in DOMAIN serie THEN Num(serie[clave]) ELSE NaNf

\* count / population * 100000
tasa(total, pop) == FMul(FDiv(Num(total), pop), Num(100000))

tasa_edad(anio) ==
    LET dedup == groupby_last(data)
        redactado == replace(dedup)
        df == fechas(redactado)
        sel == filtrar_anio(df, anio)
        edades == tabla([i \in 1..Len(sel) |-> [SEXO |-> sel[i].SEXO, EDAD |-> EDAD(sel[i])]])
        cuenta(sexo, a, b) ==
            Len(SelectSeq(edades, LAMBDA r : r.SEXO = sexo /\ between(r.EDAD, a, b)))
        renglon(i) ==
            LET a == EDADES[i][1]
                b == EDADES[i][2]
                h == cuenta("HOMBRE", a, b)
                m == cuenta("MUJER", a, b)
                ph == alinear(quinquenal["hombres"][anio], etiqueta(a, b))
                pm == alinear(quinquenal["mujeres"][anio], etiqueta(a, b))
            IN  [edad |-> etiqueta(a, b), mujeres |-> m, hombres |-> h,
                 poblacion_hombres |-> ph, tasa_hombres |-> tasa(h, ph),
                 poblacion_mujeres |-> pm, tasa_mujeres |-> tasa(m, pm)]
    IN  [reporte |-> "tasa_edad",
         archivo |-> "./tasa_edad_" \o ToString(anio) \o ".png",
         anio |-> anio, dedup |-> dedup,
         redactado |-> redactado, df |-> df,
         sel |-> sel, final |-> tabla([i \in 1..Len(EDADES) |-> renglon(i)])]

(***************************************************************************)
(* Sorting, counting, Series.min(), Series.quantile(q) and np.linspace.    *)
(***************************************************************************)
\* The order of sort_values: NaN sorts last whatever the direction.
menor(x, y) == (IsNaNf(x) /\ ~IsNaNf(y)) \/ FLt(x, y)

\* df.sort_values(c, ascending=False): a row goes after the rows that are
\* greater and after those before it that are equal.
sort_values(t, c) ==
    LET n == Len(t)
        pos == tabla([i \in 1..n |->
                   1 + Cardinality({j \in 1..n : menor(t[i][c], t[j][c])})
                     + Cardinality({j \in 1..(i - 1) :
                           ~menor(t[i][c], t[j][c]) /\ ~menor(t[j][c], t[i][c])})])
    IN  tabla([p \in 1..n |-> t[CHOOSE i \in 1..n : pos[i] = p]])

\* Series.value_counts().to_frame("total"): one row per distinct non-null
\* value, in order of first appearance, then most frequent first.
value_counts(col) ==
    LET primeros == indice({i \in 1..Len(col) :
                        col[i] # NaN /\ \A j \in 1..(i - 1) : col[j] # col[i]})
        n(v) == Cardinality({i \in 1..Len(col) : col[i] = v})
    IN  sort_values(tabla([k \in 1..Len(primeros) |->
                        [CVE |-> col[primeros[k]],
                         total |-> n(col[primeros[k]]),
                         orden |-> Num(n(col[primeros[k]]))]]),
                    "orden")

\* df.head(n)
head(t, n) == SubSeq(t, 1, IF Len(t) < n THEN Len(t) ELSE n)

\* df.tail(n)
tail(t, n) == SubSeq(t, IF Len(t) > n THEN Len(t) - n + 1 ELSE 1, Len(t))

\* A table left as it is, its rows with nulls included.
sin_dropna(t) == t

\* df.dropna(axis=0) of a table whose nullable columns are pop and tasa.
dropna(t) == SelectSeq(t, LAMBDA r : ~IsNaNf(r.pop) /\ ~IsNaNf(r.tasa))

\* Series.min() skips NaN; NaN for an empty series.
Minimo(xs) ==
    LET v == {i \in 1..Len(xs) : ~IsNaNf(xs[i])}
    IN  IF v = {} THEN NaNf
        ELSE xs[CHOOSE i \in v : \A j \in v : ~FLt(xs[j], xs[i])]

\* The values of a series without NaN in ascending order.
ordenados(xs) ==
    LET n == Len(xs)
        pos == tabla([i \in 1..n |->
                   1 + Cardinality({j \in 1..n : FLt(xs[j], xs[i])})
                     + Cardinality({j \in 1..(i - 1) :
                           ~FLt(xs[j], xs[i]) /\ ~FLt(xs[i], xs[j])})])
    IN  tabla([p \in 1..n |-> xs[CHOOSE i \in 1..n : pos[i] = p]])

\* numpy's _lerp(a, b, t).
lerp(a, b, t) ==
    IF FLe(Fin(1, 2), t)
    THEN FSub(b, FMul(FSub(b, a), FSub(Num(1), t)))
    ELSE FAdd(a, FMul(FSub(b, a), t))

\* Series.quantile(num/den) of a series without NaN, linear interpolation:
\* the value at the virtual index q * (k - 1) of the sorted values.
quantile(xs, num, den) ==
    IF Len(xs) = 0 THEN NaNf
    ELSE LET o == ordenados(xs)
             k == Len(o)
             v == num * (k - 1)
             lo == v \div den
             hi == IF lo + 1 > k - 1 THEN k - 1 ELSE lo + 1
         IN  lerp(o[lo + 1], o[hi + 1], Fin(v % den, den))

\* np.linspace(start, stop, num): num values, the last one set to stop.
linspace(start, stop, num) ==
    LET step == FDiv(FSub(stop, start), Num(num - 1))
    IN  tabla([i \in 1..num |->
            IF i = num THEN stop
            ELSE IF IsFin(step) /\ step.n = 0 THEN start
            ELSE FAdd(FMul(Num(i - 1), step), start)])

\* The tick labels: f"{item:,.0f}" from 10 up, f"{item:,.1f}" below; the
\* text of a label is kept as its prefix, its decimals and its value.
etiquetas(marcas) ==
    tabla([i \in 1..Len(marcas) |->
        [prefijo |-> "", valor |-> marcas[i],
         decimales |-> IF FLe(Num(10), marcas[i]) THEN 0 ELSE 1]])

\* The colour scale of both maps: minimum, 95th percentile, 13 ticks.
escala(t) ==
    LET valor_min == Minimo(columna(t, "tasa"))
        valor_max == quantile(columna(t, "tasa"), 95, 100)
    IN  [valor_min |-> valor_min, valor_max |-> valor_max,
         marcas |-> linspace(valor_min, valor_max, 13)]

(***************************************************************************)
(* municipal.py                                                            *)
(***************************************************************************)
\* df["CVE_ENT"] + df["CVE_MUN"]: NaN when either part is missing.
concatenar(a, b) == IF a = NaN \/ b = NaN THEN NaN ELSE a \o b

columna_CVE(sel) ==
    tabla([i \in 1..Len(sel) |-> concatenar(sel[i].CVE_ENT, sel[i].CVE_MUN)])

\* The row of the population table with a code: 0 when it has none.
fila_pop(cve) ==
    IF \E i \in 1..Len(poblacion) : poblacion[i].CVE = cve
    THEN CHOOSE i \in 1..Len(poblacion) : poblacion[i].CVE = cve ELSE 0

\* pop[str(anio)] aligned on a code: NaN when the table has no such row.
pop_municipal(anio, cve) ==
    IF fila_pop(cve) = 0 THEN NaNf ELSE Num(poblacion[fila_pop(cve)].pop[anio])

\* pop.sum() of the column of one year.
pop_total(anio) ==
    Suma(tabla([i \in 1..Len(poblacion) |-> [p |-> poblacion[i].pop[anio]]]), "p")

\* A national count taken over the rows that have a population only.
total_nacional_con_poblacion(t) ==
    Suma(SelectSeq(t, LAMBDA r : ~IsNaNf(r.pop)), "total")

\* total_nacional = df["total"].sum(), before dropna.
total_nacional(t) == Suma(t, "total")

\* df["pop"] = pop ; df["tasa"] = df["total"] / df["pop"] * 100000
agregar_pop(t, anio) ==
    tabla([i \in 1..Len(t) |->
        LET p == pop_municipal(anio, t[i].CVE)
        IN  [CVE |-> t[i].CVE, total |-> t[i].total, pop |-> p,
             tasa |-> tasa(t[i].total, p)]])

\* municipal.py: etiquetas[-1] = f">={valor_max:,.0f}"
etiquetas_municipal(e) ==
    [etiquetas(e.marcas) EXCEPT
        ![Len(e.marcas)] = [prefijo |-> ">=", valor |-> e.valor_max, decimales |-> 0]]

crear_mapa_municipal(anio) ==
    LET dedup == groupby_last(data)
        redactado == replace(dedup)
        df == fechas(redactado)
        sel == filtrar_anio(df, anio)
        conteo == agregar_pop(value_counts(columna_CVE(sel)), anio)
        final == dropna(conteo)
        e == escala(final)
    IN  [reporte |-> "municipal.crear_mapa",
         archivo |-> "./municipal_" \o ToString(anio) \o ".png",
         anio |-> anio, dedup |-> dedup,
         redactado |-> redactado,
         df |-> df, sel |-> sel, conteo |-> conteo,
         total_nacional |-> total_nacional(conteo),
         poblacion_nacional |-> pop_total(anio),
         final |-> final, valor_min |-> e.valor_min, valor_max |-> e.valor_max,
         marcas |-> e.marcas, etiquetas |-> etiquetas_municipal(e)]

\* df.join(pop): the name and the population of the year, NaN where the
\* population table has no row for the code, and the rate.
join_pop(t, anio) ==
    tabla([i \in 1..Len(t) |->
        LET p == pop_municipal(anio, t[i].CVE)
        IN  [CVE |-> t[i].CVE, total |-> t[i].total,
             nombre |-> IF fila_pop(t[i].CVE) = 0 THEN NaN
                        ELSE poblacion[fila_pop(t[i].CVE)].nombre,
             pop |-> p, tasa |-> tasa(t[i].total, p)]])

\* A cutoff of 5,000 inhabitants.
filtrar_poblacion_5000(t) == SelectSeq(t, LAMBDA r : FLe(Num(5000), r.pop))

\* df[df[str(anio)] >= 50000]: a comparison with NaN is false.
filtrar_poblacion(t) == SelectSeq(t, LAMBDA r : FLe(Num(50000), r.pop))

\* Positions that keep the index of reset_index, which starts at 0.
posiciones_desde_cero(t) == tabla([i \in 1..Len(t) |-> i - 1])

\* reset_index, index += 1: the position of each row, from 1.
posiciones(t) == tabla([i \in 1..Len(t) |-> i])

tasa_municipios(anio) ==
    LET dedup == groupby_last(data)
        redactado == replace(dedup)
        df == fechas(redactado)
        sel == filtrar_anio(df, anio)
        conteo == join_pop(value_counts(columna_CVE(sel)), anio)
        orden == sort_values(filtrar_poblacion(conteo), "tasa")
    IN  [reporte |-> "tasa_municipios",
         archivo |-> "./tabla_tasa.png",
         anio |-> anio, dedup |-> dedup,
         redactado |-> redactado,
         df |-> df, sel |-> sel, conteo |-> conteo,
         final |-> head(orden, 30), pos |-> head(posiciones(orden), 30)]

\* sort_values("total", ascending=False)
ordenar_total(t) ==
    LET o == sort_values(tabla([i \in 1..Len(t) |->
                             [fila |-> t[i], orden |-> Num(t[i].total)]]), "orden")
    IN  tabla([i \in 1..Len(o) |-> o[i].fila])

absolutos_municipios(anio) ==
    LET dedup == groupby_last(data)
        redactado == replace(dedup)
        df == fechas(redactado)
        sel == filtrar_anio(df, anio)
        conteo == join_pop(value_counts(columna_CVE(sel)), anio)
        orden == ordenar_total(conteo)
    IN  [reporte |-> "absolutos_municipios",
         archivo |-> "./tabla_absolutos.png",
         anio |-> anio, dedup |-> dedup,
         redactado |-> redactado,
         df |-> df, sel |-> sel, conteo |-> conteo,
         final |-> head(orden, 30), pos |-> head(posiciones(orden), 30)]

(***************************************************************************)
(* estatal.py                                                              *)
(***************************************************************************)
NombresEntidades ==
    <<"Aguascalientes", "Baja California", "Baja California Sur", "Campeche",
      "Coahuila", "Colima", "Chiapas", "Chihuahua", "Ciudad de Mexico",
      "Durango", "Guanajuato", "Guerrero", "Hidalgo", "Jalisco",
      "Estado de Mexico", "Michoacan", "Morelos", "Nayarit", "Nuevo Leon",
      "Oaxaca", "Puebla", "Queretaro", "Quintana Roo", "San Luis Potosi",
      "Sinaloa", "Sonora", "Tabasco", "Tamaulipas", "Tlaxcala", "Veracruz",
      "Yucatan", "Zacatecas">>

ENTIDADES ==
    [i \in (0..32) \cup {99} |->
        IF i = 0 THEN "Mexico" ELSE IF i = 99 THEN "Se desconoce"
        ELSE NombresEntidades[i]]

MESES ==
    <<"Enero", "Febrero", "Marzo", "Abril", "Mayo", "Junio", "Julio", "Agosto",
      "Septiembre", "Octubre", "Noviembre", "Diciembre">>

\* f"{entidad_id:02}"
dos_digitos(i) == IF i < 10 THEN "0" \o ToString(i) ELSE ToString(i)

\* The entity codes, which read_csv without a dtype reads as numbers.
es_clave(s) == Len(s) = 2 /\ numero(s) \in DOMAIN ENTIDADES

a_entero(s) == numero(s)

\* pop["CVE"].str[:2] ; pop.groupby("CVE").sum(): the entity codes of the
\* population table and the population of each, the sum over the rows
\* whose code starts with the entity's.
entidades_pop == {SubSeq(poblacion[i].CVE, 1, 2) : i \in 1..Len(poblacion)}

\* A grouping that keeps the first row of each entity.
groupby_CVE_first(anio, ent) ==
    poblacion[CHOOSE i \in 1..Len(poblacion) :
                  /\ SubSeq(poblacion[i].CVE, 1, 2) = ent
                  /\ \A j \in 1..(i - 1) : SubSeq(poblacion[j].CVE, 1, 2) # ent].pop[anio]

\* pop["CVE"] = pop["CVE"].str[:2] ; pop.groupby("CVE").sum(): the sum of
\* the rows of an entity of the table, for one year.
groupby_CVE_sum(anio, ent) ==
    Suma(tabla([i \in 1..Len(poblacion) |->
            [p |-> IF SubSeq(poblacion[i].CVE, 1, 2) = ent
                   THEN poblacion[i].pop[anio] ELSE 0]]), "p")

\* pop.sum(axis=0) of the grouped table: the sum over its entities.
RECURSIVE sum_axis0(_, _)
sum_axis0(anio, entidades) ==
    IF entidades = {} THEN 0
    ELSE LET e == CHOOSE e \in entidades : TRUE
         IN  groupby_CVE_sum(anio, e) + sum_axis0(anio, entidades \ {e})

pop_estatal(anio, ent) ==
    IF ent \notin entidades_pop THEN NaNf ELSE Num(groupby_CVE_sum(anio, ent))

\* The years the population table has a column for.
anios_pop == UNION {DOMAIN poblacion[i].pop : i \in 1..Len(poblacion)}

\* The population series of the yearly reports: the population of the
\* entity, or of all the entities for entidad_id = 0, NaN for a year the
\* table has no column for.
pop_serie(entidad_id, anio) ==
    IF anio \notin anios_pop THEN NaNf
    ELSE IF entidad_id = 0 THEN Num(sum_axis0(anio, entidades_pop))
    ELSE pop_estatal(anio, dos_digitos(entidad_id))

\* read_csv without a dtype: CVE_ENT is a numeric column when every cell
\* of it is a number or missing, and a column of strings otherwise.
es_numerica(df) ==
    \A i \in 1..Len(df) : df[i].CVE_ENT = NaN \/ es_clave(df[i].CVE_ENT)

\* An entity filter that leaves the unknown entity out of the whole country.
filtrar_entidad_conocida(df, entidad_id) ==
    IF entidad_id = 0 THEN SelectSeq(df, LAMBDA r : r.CVE_ENT # "99")
    ELSE IF ~es_numerica(df) THEN <<>>
    ELSE SelectSeq(df, LAMBDA r :
            r.CVE_ENT # NaN /\ a_entero(r.CVE_ENT) = entidad_id)

\* df[df["CVE_ENT"] == entidad_id], skipped for entidad_id = 0; a string
\* never equals a number.
filtrar_entidad(df, entidad_id) ==
    IF entidad_id = 0 THEN df
    ELSE IF ~es_numerica(df) THEN <<>>
    ELSE SelectSeq(df, LAMBDA r :
            r.CVE_ENT # NaN /\ a_entero(r.CVE_ENT) = entidad_id)

\* The resolved dates of a table, NaT dropped (value_counts).
fechas_de(df) ==
    columna(SelectSeq(df, LAMBDA r : r.FECHA_DESAPARICION # NaT),
            "FECHA_DESAPARICION")

\* A yearly count that has rows for the years with records only.
resample_YS_observados(fs) ==
    LET ys == indice({fs[i].y : i \in 1..Len(fs)})
    IN  tabla([k \in 1..Len(ys) |->
            [anio |-> ys[k],
             total |-> Cardinality({i \in 1..Len(fs) : fs[i].y = ys[k]})]])

\* value_counts().resample("YS").sum(): one row per calendar year from the
\* first to the last year that has a date, with the number of dates in it.
resample_YS(fs) ==
    IF Len(fs) = 0 THEN <<>>
    ELSE LET ys == {fs[i].y : i \in 1..Len(fs)}
         IN  tabla([k \in 1..(Max(ys) - Min(ys) + 1) |->
                 [anio |-> Min(ys) + k - 1,
                  total |-> Cardinality({i \in 1..Len(fs) : fs[i].y = Min(ys) + k - 1})]])

desaparecidos_anuales(entidad_id) ==
    LET dedup == groupby_last(filtrar_entidad(data, entidad_id))
        redactado == replace(dedup)
        df == fechas(redactado)
        anual == resample_YS(fechas_de(df))
        final == tabla([i \in 1..Len(anual) |->
                     LET p == pop_serie(entidad_id, anual[i].anio)
                     IN  [anio |-> anual[i].anio, total |-> anual[i].total,
                          pop |-> p, tasa |-> tasa(anual[i].total, p)]])
    IN  [reporte |-> "desaparecidos_anuales",
         archivo |-> "./anual_" \o ToString(entidad_id) \o ".png",
         entidad_id |-> entidad_id,
         dedup |-> dedup,
         redactado |-> redactado, df |-> df, final |-> tail(final, 20)]

\* df.resample("YS").sum(numeric_only=True): one row per calendar year
\* from the first to the last year that has a row, with the sum of TOTAL.
resample_YS_suma(filas) ==
    IF Len(filas) = 0 THEN <<>>
    ELSE LET ys == {filas[i].fecha.y : i \in 1..Len(filas)}
             de(y) == SelectSeq(filas, LAMBDA r : r.fecha.y = y)
         IN  tabla([k \in 1..(Max(ys) - Min(ys) + 1) |->
                 [anio |-> Min(ys) + k - 1,
                  total |-> Suma(de(Min(ys) + k - 1), "total")]])

homicidios_anuales(entidad_id) ==
    LET h1 == SelectSeq(victimas, LAMBDA r : entidad_id = 0 \/ r.CVE_ENT = entidad_id)
        h2 == SelectSeq(h1, LAMBDA r : r.DELITO \in {"Homicidio doloso", "Feminicidio"})
        anual == resample_YS_suma(tabla([i \in 1..Len(h2) |->
                     [fecha |-> to_datetime(h2[i].PERIODO), total |-> h2[i].TOTAL]]))
    IN  [reporte |-> "homicidios_anuales",
         archivo |-> "./anual_homicidios_" \o ToString(entidad_id) \o ".png",
         entidad_id |-> entidad_id,
         filas |-> h2,
         final |-> tabla([i \in 1..Len(anual) |->
                     LET p == pop_serie(entidad_id, anual[i].anio)
                     IN  [anio |-> anual[i].anio, total |-> anual[i].total,
                          pop |-> p, tasa |-> tasa(anual[i].total, p)]])]

\* The month of a timestamp counted from year 0.
mes_abs(f) == f.y * 12 + f.m - 1

\* resample("MS").sum(): one row per calendar month from the first to the
\* last month that has a row, with the sum of the rows of that month.
resample_MS(filas) ==
    IF Len(filas) = 0 THEN <<>>
    ELSE LET ms == {mes_abs(filas[i].fecha) : i \in 1..Len(filas)}
             de(m) == SelectSeq(filas, LAMBDA r : mes_abs(r.fecha) = m)
         IN  tabla([k \in 1..(Max(ms) - Min(ms) + 1) |->
                 [anio |-> (Min(ms) + k - 1) \div 12,
                  mes |-> ((Min(ms) + k - 1) % 12) + 1,
                  total |-> Suma(de(Min(ms) + k - 1), "total")]])

\* go.Bar(x=MESES, y=serie.values): the i-th value is drawn at the i-th label.
barras(serie) ==
    tabla([i \in 1..(IF Len(serie) < Len(MESES) THEN Len(serie) ELSE Len(MESES)) |->
        [x |-> MESES[i], y |-> serie[i].total]])

\* The homicide series of comparacion_mensual.
homicidios_mensuales(entidad_id, anio) ==
    LET h1 == SelectSeq(victimas, LAMBDA r : entidad_id = 0 \/ r.CVE_ENT = entidad_id)
        h2 == SelectSeq(h1, LAMBDA r : r.DELITO \in {"Homicidio doloso", "Feminicidio"})
        h3 == SelectSeq(h2, LAMBDA r : to_datetime(r.PERIODO).y = anio)
    IN  resample_MS(tabla([i \in 1..Len(h3) |->
                        [fecha |-> to_datetime(h3[i].PERIODO), total |-> h3[i].TOTAL]]))

comparacion_mensual(entidad_id, anio) ==
    LET homicidios == homicidios_mensuales(entidad_id, anio)
        dedup == groupby_last(filtrar_entidad(data, entidad_id))
        redactado == replace(dedup)
        df == fechas(redactado)
        sel == filtrar_anio(df, anio)
        fs == fechas_de(sel)
        desaparecidos ==
            resample_MS(tabla([i \in 1..Len(fs) |-> [fecha |-> fs[i], total |-> 1]]))
    IN  [reporte |-> "comparacion_mensual",
         archivo |-> "./mensual_" \o ToString(entidad_id) \o "_" \o ToString(anio) \o ".png",
         entidad_id |-> entidad_id,
         anio |-> anio, dedup |-> dedup,
         redactado |-> redactado, df |-> df, sel |-> sel,
         desaparecidos |-> desaparecidos, homicidios |-> homicidios,
         barras_desaparecidos |-> barras(desaparecidos),
         barras_homicidios |-> barras(homicidios)]

\* df.pivot_table(index="CVE_ENT", columns="SEXO", values="ENTIDAD",
\* aggfunc="count", fill_value=0) and df["total"] = df.sum(axis=1): one row
\* per entity code among the rows that have a code and a sex, ordered by
\* code, counting the rows whose ENTIDAD is not null.
pivot_sexo(sel) ==
    LET con == SelectSeq(sel, LAMBDA r : r.CVE_ENT # NaN /\ r.SEXO # NaN)
        ix == indice({a_entero(con[i].CVE_ENT) : i \in 1..Len(con)})
        n(e, sexos) ==
            Len(SelectSeq(con, LAMBDA r :
                r.CVE_ENT = e /\ r.SEXO \in sexos /\ r.ENTIDAD # NaN))
    IN  tabla([i \in 1..Len(ix) |->
            LET e == dos_digitos(ix[i])
            IN  [CVE |-> e,
                 HOMBRE |-> n(e, {"HOMBRE"}),
                 MUJER |-> n(e, {"MUJER"}),
                 total |-> n(e, {con[k].SEXO : k \in 1..Len(con)})]])

\* df["pop"] = pop ; df["tasa"] = df["total"] / df["pop"] * 100000
agregar_pop_estatal(t, anio) ==
    tabla([i \in 1..Len(t) |->
        LET p == pop_estatal(anio, t[i].CVE)
        IN  [CVE |-> t[i].CVE, HOMBRE |-> t[i].HOMBRE, MUJER |-> t[i].MUJER,
             total |-> t[i].total, pop |-> p, tasa |-> tasa(t[i].total, p)]])

\* estatal.py: etiquetas[-1] = f">={etiquetas[-1]}"
etiquetas_estatal(e) ==
    LET et == etiquetas(e.marcas)
    IN  [et EXCEPT ![Len(et)] = [et[Len(et)] EXCEPT !.prefijo = ">="]]

crear_mapa_estatal(anio) ==
    LET dedup == groupby_last(data)
        redactado == replace(dedup)
        df == fechas(redactado)
        sel == filtrar_anio(df, anio)
        conteo == sort_values(agregar_pop_estatal(pivot_sexo(sel), anio), "tasa")
        final == dropna(conteo)
        e == escala(final)
    IN  [reporte |-> "estatal.crear_mapa",
         archivo |-> "./estatal_" \o ToString(anio) \o ".png",
         temporales |-> {"./1.png", "./2.png"},
         borrados |-> {"./1.png", "./2.png"},
         anio |-> anio, dedup |-> dedup,
         redactado |-> redactado,
         df |-> df, sel |-> sel, conteo |-> conteo,
         total_nacional |-> total_nacional(conteo),
         poblacion_nacional |-> sum_axis0(anio, entidades_pop),
         final |-> final, valor_min |-> e.valor_min, valor_max |-> e.valor_max,
         marcas |-> e.marcas, etiquetas |-> etiquetas_estatal(e)]

\* df.index.map(ENTIDADES): the name of an entity code that read_csv has
\* read as a number, NaN for a code that it has left as a string (the keys
\* of ENTIDADES are numbers) and for a number that is no key.
nombre_entidad(cve, numerica) ==
    IF numerica /\ es_clave(cve) THEN ENTIDADES[a_entero(cve)] ELSE NaN

\* df.pivot_table(index="CVE_ENT", columns=year, values="ENTIDAD",
\* aggfunc="count", fill_value=0): one row per entity code among the
\* selected rows that have one, ordered by code, with the number of rows of
\* each of the two years whose ENTIDAD is not null.
pivot_anio(sel, primer_anio, segundo_anio) ==
    LET con == SelectSeq(sel, LAMBDA r : r.CVE_ENT # NaN)
        ix == indice({a_entero(con[i].CVE_ENT) : i \in 1..Len(con)})
        n(e, y) ==
            Len(SelectSeq(con, LAMBDA r :
                r.CVE_ENT = e /\ r.FECHA_DESAPARICION.y = y /\ r.ENTIDAD # NaN))
    IN  tabla([i \in 1..Len(ix) |->
            [CVE |-> dos_digitos(ix[i]),
             primero |-> n(dos_digitos(ix[i]), primer_anio),
             segundo |-> n(dos_digitos(ix[i]), segundo_anio)]])

\* (df[segundo_anio] - df[primer_anio]) / df[primer_anio] * 100
cambio(primero, segundo) ==
    FMul(FDiv(Num(segundo - primero), Num(primero)), Num(100))

\* The years that are columns of the pivot table: those with a counted row.
columnas_anio(sel) ==
    {sel[i].FECHA_DESAPARICION.y :
        i \in {i \in 1..Len(sel) : sel[i].CVE_ENT # NaN /\ sel[i].ENTIDAD # NaN}}

comparacion_anual(primer_anio, segundo_anio) ==
    LET dedup == groupby_last(data)
        redactado == replace(dedup)
        df == fechas(redactado)
        sel == SelectSeq(df, LAMBDA r :
                   r.FECHA_DESAPARICION # NaT
                   /\ r.FECHA_DESAPARICION.y \in {primer_anio, segundo_anio})
        pivote == pivot_anio(sel, primer_anio, segundo_anio)
        conteo == tabla([i \in 1..Len(pivote) |->
                      [CVE |-> pivote[i].CVE,
                       nombre |-> nombre_entidad(pivote[i].CVE, es_numerica(data)),
                       primero |-> pivote[i].primero,
                       segundo |-> pivote[i].segundo]])
        nacional == [CVE |-> "Nacional", nombre |-> "<b>Nacional</b>",
                     primero |-> Suma(conteo, "primero"),
                     segundo |-> Suma(conteo, "segundo")]
        todas == Append(conteo, nacional)
    IN  [reporte |-> "comparacion_anual",
         archivo |-> "./comparacion_entidad.png",
         primer_anio |-> primer_anio,
         segundo_anio |-> segundo_anio, dedup |-> dedup,
         redactado |-> redactado, df |-> df, sel |-> sel,
         conteo |-> conteo,
         final |-> sort_values(tabla([i \in 1..Len(todas) |->
                       [CVE |-> todas[i].CVE, nombre |-> todas[i].nombre,
                        primero |-> todas[i].primero, segundo |-> todas[i].segundo,
                        cambio |-> cambio(todas[i].primero, todas[i].segundo)]]),
                     "cambio")]

(***************************************************************************)
(* The reports as operations on the state: each reads the input files,     *)
(* leaves them as they are and leaves its locals in salida.                *)
(***************************************************************************)
Anios == {2023, 2024}

\* A report whose list of rows is a global that outlives the run: the rows
\* of a run are appended to those of the run before of the same report.
Reporte_lista_global(r) ==
    /\ salida' = IF salida.reporte = r.reporte /\ "final" \in DOMAIN r
                 THEN [r EXCEPT !.final = salida.final \o r.final] ELSE r
    /\ UNCHANGED <<data, poblacion, quinquenal, victimas, archivos, invocaciones>>

Reporte(r) ==
    /\ salida' = r
    /\ UNCHANGED <<data, poblacion, quinquenal, victimas, archivos, invocaciones>>

TasaEdad == \E anio \in Anios : Reporte(tasa_edad(anio))

CrearMapaMunicipal == \E anio \in Anios : Reporte(crear_mapa_municipal(anio))

TasaMunicipios == \E anio \in Anios : Reporte(tasa_municipios(anio))

AbsolutosMunicipios == \E anio \in Anios : Reporte(absolutos_municipios(anio))

CrearMapaEstatal == \E anio \in Anios : Reporte(crear_mapa_estatal(anio))

\* pop.loc[f"{entidad_id:02}"] raises a KeyError for an entity the
\* population table does not have: the report then produces nothing.
EntidadesReporte == {0, 1}

DesaparecidosAnuales ==
    \E e \in EntidadesReporte :
        /\ e = 0 \/ dos_digitos(e) \in entidades_pop
        /\ Reporte(desaparecidos_anuales(e))

HomicidiosAnuales ==
    \E e \in EntidadesReporte :
        /\ e = 0 \/ dos_digitos(e) \in entidades_pop
        /\ Reporte(homicidios_anuales(e))

\* df[primer_anio] raises a KeyError when no counted record is of one of
\* the two years: the report then produces nothing.
ParesDeAnios == {<<2023, 2024>>, <<2024, 2023>>}

ComparacionAnual ==
    \E par \in ParesDeAnios :
        /\ {par[1], par[2]} \subseteq columnas_anio(comparacion_anual(par[1], par[2]).sel)
        /\ Reporte(comparacion_anual(par[1], par[2]))

ComparacionMensual ==
    \E e \in EntidadesReporte, anio \in Anios : Reporte(comparacion_mensual(e, anio))

(***************************************************************************)
(* The input files.  Every specification below starts from input files     *)
(* drawn from a bounded family and then runs reports on them.              *)
(***************************************************************************)
MaxFilas == 2
NumVictimas == 2
NumBase == 40

fila(id, sexo, fd, fr, fn, ent, mun) ==
    [ID_VICTIMA |-> id, SEXO |-> sexo, FECHA_DESAPARICION |-> fd,
     FECHA_REGISTRO |-> fr, FECHA_NACIMIENTO |-> fn, CVE_ENT |-> ent,
     CVE_MUN |-> mun,
     ENTIDAD |-> IF es_clave(ent) THEN ENTIDADES[a_entero(ent)] ELSE ent]

SeqHasta(S, n) == UNION {[1..k -> S] : k \in 0..n}

Ninguna == [reporte |-> "ninguno"]

\* The number of invocations of estatal.crear_mapa that run by steps.
NumInvocaciones == 3

\* The image files of estatal.crear_mapa: the two temporary ones and the
\* composite of each year.
NombresDeImagen ==
    {"./1.png", "./2.png"} \cup {"./estatal_" \o ToString(a) \o ".png" : a \in Anios}

\* No file of that name.
Ausente == [imagen |-> "ausente", anio |-> 0, invocacion |-> 0]

\* A working directory without images.
SinArchivos == [n \in NombresDeImagen |-> Ausente]

\* No invocation has been called.
SinInvocaciones ==
    [i \in 1..NumInvocaciones |->
        [pc |-> "inicio", anio |-> 0, imagen1 |-> Ausente, imagen2 |-> Ausente,
         exclusiva |-> TRUE]]

\* f"{i:03}"
tres_digitos(i) ==
    IF i < 10 THEN "00" \o ToString(i)
    ELSE IF i < 100 THEN "0" \o ToString(i) ELSE ToString(i)

municipio(cve, nombre, p2023, p2024) ==
    [CVE |-> cve, nombre |-> nombre, pop |-> (2023 :> p2023) @@ (2024 :> p2024)]

\* Four municipalities of the entities 01 and 02.
PoblacionChica ==
    <<municipio("01001", "Aguascalientes, Aguascalientes", 60000, 100000),
      municipio("01002", "Asientos, Aguascalientes", 40000, 40000),
      municipio("02001", "Ensenada, Baja California", 50000, 50000),
      municipio("02002", "Mexicali, Baja California", 100000, 60000)>>

\* The same table with a municipality whose estimate for 2024 is 0.
PoblacionConCero ==
    [PoblacionChica EXCEPT
        ![2] = municipio("01002", "Asientos, Aguascalientes", 40000, 0)]

\* NumBase further municipalities, of entity 03, with populations on both
\* sides of the 50,000 cutoff.
PoblacionBase ==
    [i \in 1..NumBase |->
        LET p == <<50000, 60000, 100000, 40000>>[(i % 4) + 1]
        IN  municipio("03" \o tres_digitos(i),
                      "Municipio " \o ToString(i) \o ", Baja California Sur", p, p)]

\* One victim, with one row dated 2024, in each municipality of entity 03.
bloque(n) ==
    [i \in 1..n |->
        fila(100 + i, "HOMBRE", "2024-03-01", NaN, "2000-07-15", "03", tres_digitos(i))]

\* The five-year population tables: every band of EDADES has a row.
Quinquenal ==
    [sexo \in {"hombres", "mujeres"} |->
        [anio \in {2023, 2024} |->
            [e \in {etiqueta(EDADES[i][1], EDADES[i][2]) : i \in 1..Len(EDADES)} |->
                IF sexo = "hombres" THEN 500000 ELSE 400000]]]

homicidio(periodo, ent, delito, total) ==
    [PERIODO |-> periodo, CVE_ENT |-> ent, DELITO |-> delito, TOTAL |-> total]

\* A time series of victims that, as in a year still running, ends in May.
VictimasParcial ==
    <<homicidio("2023-11-01", 1, "Homicidio doloso", 4),
      homicidio("2024-01-01", 1, "Homicidio doloso", 3),
      homicidio("2024-01-01", 1, "Feminicidio", 1),
      homicidio("2024-01-01", 2, "Homicidio doloso", 2),
      homicidio("2024-01-01", 2, "Secuestro", 7),
      homicidio("2024-03-01", 2, "Homicidio doloso", 5),
      homicidio("2024-05-01", 1, "Feminicidio", 1)>>

\* Dates: rows that differ in the two date columns and in the victim.
FilasFechas ==
    {fila(id, "MUJER", fd, fr, "2000-07-15", "01", "001") :
        id \in 1..NumVictimas,
        fd \in {"2024-03-01", "2023-11-20", "2024-13-45", NaN},
        fr \in {"2024-05-01", "2023-05-01", NaN}}

Init ==
    /\ data \in SeqHasta(FilasFechas, MaxFilas)
    /\ poblacion = PoblacionChica
    /\ quinquenal = Quinquenal
    /\ victimas = VictimasParcial
    /\ salida = Ninguna
    /\ archivos = SinArchivos
    /\ invocaciones = SinInvocaciones

Next ==
    \/ TasaEdad
    \/ CrearMapaMunicipal
    \/ TasaMunicipios
    \/ AbsolutosMunicipios
    \/ CrearMapaEstatal
    \/ DesaparecidosAnuales
    \/ ComparacionMensual

Spec == Init /\ [][Next]_vars

\* Age and sex: rows that differ in sex, event date and birth date.
FilasEdad ==
    {fila(id, sexo, fd, NaN, fn, "01", "001") :
        id \in 1..NumVictimas,
        sexo \in {"MUJER", "HOMBRE", NaN},
        fd \in {"2024-03-01", "2023-11-20", NaN},
        fn \in {"2000-07-15", "1939-02-10", "1903-09-09", "2024-01-05", NaN}}

InitEdad ==
    /\ data \in SeqHasta(FilasEdad, MaxFilas)
    /\ poblacion = PoblacionChica
    /\ quinquenal = Quinquenal
    /\ victimas = VictimasParcial
    /\ salida = Ninguna
    /\ archivos = SinArchivos
    /\ invocaciones = SinInvocaciones

NextEdad == TasaEdad

SpecEdad == InitEdad /\ [][NextEdad]_vars

\* Regions: rows that differ in entity and municipality, after the rows of
\* entity 03 when the population table has them.
FilasRegion ==
    {fila(id, "HOMBRE", fd, NaN, "2000-07-15", ent, mun) :
        id \in 1..NumVictimas,
        fd \in {"2024-03-01", "2023-11-20"},
        ent \in {"01", "02", "99"},
        mun \in {"001", "002"}}

InitRegion ==
    /\ \/ \E libres \in SeqHasta(FilasRegion, MaxFilas) :
            /\ poblacion \in {PoblacionChica, PoblacionConCero}
            /\ data = libres
       \/ \E libres \in SeqHasta(FilasRegion, MaxFilas - 1) :
            /\ poblacion = PoblacionChica \o PoblacionBase
            /\ data = bloque(NumBase) \o libres
    /\ quinquenal = Quinquenal
    /\ victimas = VictimasParcial
    /\ salida = Ninguna
    /\ archivos = SinArchivos
    /\ invocaciones = SinInvocaciones

NextRegion ==
    \/ CrearMapaMunicipal
    \/ CrearMapaEstatal
    \/ TasaMunicipios
    \/ AbsolutosMunicipios

SpecRegion == InitRegion /\ [][NextRegion]_vars

\* The yearly and monthly reports of estatal.py: rows that differ in the
\* year of the event, with years without records in between and more than
\* 20 years apart, and in the entity code.
FilasAnual ==
    {fila(id, "MUJER", fd, NaN, "2000-07-15", ent, "001") :
        id \in 1..NumVictimas,
        fd \in {"2024-03-01", "2022-06-10", "2003-02-02", NaN},
        ent \in {"01", "02", "99", CONFIDENCIAL}}

InitAnual ==
    /\ data \in SeqHasta(FilasAnual, MaxFilas)
    /\ poblacion = PoblacionChica
    /\ quinquenal = Quinquenal
    /\ victimas = VictimasParcial
    /\ salida = Ninguna
    /\ archivos = SinArchivos
    /\ invocaciones = SinInvocaciones

NextAnual ==
    \/ DesaparecidosAnuales
    \/ HomicidiosAnuales
    \/ ComparacionMensual

SpecAnual == InitAnual /\ [][NextAnual]_vars

\* The reports by entity: rows that differ in the year of the event and in
\* the entity code, unknown and confidential included.
FilasEntidad ==
    {fila(id, "MUJER", fd, NaN, "2000-07-15", ent, "001") :
        id \in 1..NumVictimas,
        fd \in {"2024-03-01", "2023-11-20"},
        ent \in {"01", "02", "99", CONFIDENCIAL}}

\* A file may start with the row of one more victim, whose entity code is
\* confidential.
FilaReservada ==
    fila(100, "MUJER", "2024-03-01", NaN, "2000-07-15", CONFIDENCIAL, "001")

InitEntidad ==
    /\ \E previas \in {<<>>, <<FilaReservada>>},
          libres \in SeqHasta(FilasEntidad, MaxFilas) :
            data = previas \o libres
    /\ poblacion = PoblacionChica
    /\ quinquenal = Quinquenal
    /\ victimas = VictimasParcial
    /\ salida = Ninguna
    /\ archivos = SinArchivos
    /\ invocaciones = SinInvocaciones

NextEntidad ==
    \/ CrearMapaEstatal
    \/ ComparacionAnual

SpecEntidad == InitEntidad /\ [][NextEntidad]_vars

\* Redaction: rows in which any of the columns may hold "CONFIDENCIAL".
FilasRedaccion ==
    {fila(id, sexo, fd, otras[1], otras[2], ent, mun) :
        id \in 1..NumVictimas,
        sexo \in {"MUJER", CONFIDENCIAL},
        fd \in {"2024-03-01", CONFIDENCIAL},
        otras \in {<<"2023-05-01", "2000-07-15">>, <<CONFIDENCIAL, CONFIDENCIAL>>},
        ent \in {"01", CONFIDENCIAL},
        mun \in {"001", CONFIDENCIAL}}

InitRedaccion ==
    /\ data \in SeqHasta(FilasRedaccion, MaxFilas)
    /\ poblacion = PoblacionChica
    /\ quinquenal = Quinquenal
    /\ victimas = VictimasParcial
    /\ salida = Ninguna
    /\ archivos = SinArchivos
    /\ invocaciones = SinInvocaciones

NextRedaccion ==
    \/ TasaEdad
    \/ CrearMapaMunicipal
    \/ CrearMapaEstatal
    \/ ComparacionAnual

SpecRedaccion == InitRedaccion /\ [][NextRedaccion]_vars

(***************************************************************************)
(* estatal.crear_mapa by steps.  Each invocation writes the map to         *)
(* ./1.png and the table to ./2.png, opens both, saves the composite and   *)
(* removes the two temporary files; the steps of several invocations       *)
(* interleave.  An image is known by what it shows, the year it is of and  *)
(* the invocation that has written it.  Image.open takes the image that    *)
(* the file holds at that step.                                            *)
(***************************************************************************)
\* A removal that leaves the file in place.
os_remove_nada(fs, nombre) == fs

\* fig.write_image(nombre): the file holds the image, whatever it held.
write_image(fs, nombre, imagen) == [fs EXCEPT ![nombre] = imagen]

\* os.remove(nombre)
os_remove(fs, nombre) == [fs EXCEPT ![nombre] = Ausente]

\* An invocation is between its call and its return.
en_curso(i) == invocaciones[i].pc \notin {"inicio", "fin", "error"}

\* Invocation i takes a step that leaves it as the record r: i has run on
\* its own so far when no other invocation is under way, and an invocation
\* under way no longer runs on its own.
paso(i, r) ==
    invocaciones' =
        [j \in 1..NumInvocaciones |->
            IF j = i
            THEN [r EXCEPT !.exclusiva =
                     invocaciones[i].exclusiva
                     /\ \A k \in (1..NumInvocaciones) \ {i} : ~en_curso(k)]
            ELSE IF en_curso(j) THEN [invocaciones[j] EXCEPT !.exclusiva = FALSE]
            ELSE invocaciones[j]]

\* crear_mapa(anio) is called.
Llamar ==
    \E i \in 1..NumInvocaciones, anio \in Anios :
        /\ invocaciones[i].pc = "inicio"
        /\ paso(i, [invocaciones[i] EXCEPT !.pc = "mapa", !.anio = anio])
        /\ UNCHANGED <<data, poblacion, quinquenal, victimas, salida, archivos>>

\* fig.write_image("./1.png")
EscribirMapa ==
    \E i \in 1..NumInvocaciones :
        /\ invocaciones[i].pc = "mapa"
        /\ archivos' = write_image(archivos, "./1.png",
               [imagen |-> "mapa", anio |-> invocaciones[i].anio, invocacion |-> i])
        /\ paso(i, [invocaciones[i] EXCEPT !.pc = "tabla"])
        /\ UNCHANGED <<data, poblacion, quinquenal, victimas, salida>>

\* fig.write_image("./2.png")
EscribirTabla ==
    \E i \in 1..NumInvocaciones :
        /\ invocaciones[i].pc = "tabla"
        /\ archivos' = write_image(archivos, "./2.png",
               [imagen |-> "tabla", anio |-> invocaciones[i].anio, invocacion |-> i])
        /\ paso(i, [invocaciones[i] EXCEPT !.pc = "abrir1"])
        /\ UNCHANGED <<data, poblacion, quinquenal, victimas, salida>>

\* imagen1 = Image.open("./1.png"): FileNotFoundError ends the invocation
\* when the file is not there.
AbrirMapa ==
    \E i \in 1..NumInvocaciones :
        /\ invocaciones[i].pc = "abrir1"
        /\ paso(i, IF archivos["./1.png"] = Ausente
                   THEN [invocaciones[i] EXCEPT !.pc = "error"]
                   ELSE [invocaciones[i] EXCEPT !.pc = "abrir2",
                                                !.imagen1 = archivos["./1.png"]])
        /\ UNCHANGED <<data, poblacion, quinquenal, victimas, salida, archivos>>

\* imagen2 = Image.open("./2.png")
AbrirTabla ==
    \E i \in 1..NumInvocaciones :
        /\ invocaciones[i].pc = "abrir2"
        /\ paso(i, IF archivos["./2.png"] = Ausente
                   THEN [invocaciones[i] EXCEPT !.pc = "error"]
                   ELSE [invocaciones[i] EXCEPT !.pc = "guardar",
                                                !.imagen2 = archivos["./2.png"]])
        /\ UNCHANGED <<data, poblacion, quinquenal, victimas, salida, archivos>>

\* resultado.save(f"./estatal_{anio}.png"): the composite is known by the
\* invocation that has saved it; its two halves are imagen1 and imagen2.
Guardar ==
    \E i \in 1..NumInvocaciones :
        /\ invocaciones[i].pc = "guardar"
        /\ archivos' = write_image(archivos,
               "./estatal_" \o ToString(invocaciones[i].anio) \o ".png",
               [imagen |-> "compuesta", anio |-> invocaciones[i].anio,
                invocacion |-> i])
        /\ paso(i, [invocaciones[i] EXCEPT !.pc = "borrar1"])
        /\ UNCHANGED <<data, poblacion, quinquenal, victimas, salida>>

\* os.remove("./1.png"): FileNotFoundError ends the invocation when the
\* file is not there.
BorrarMapa ==
    \E i \in 1..NumInvocaciones :
        /\ invocaciones[i].pc = "borrar1"
        /\ archivos' = os_remove(archivos, "./1.png")
        /\ paso(i, [invocaciones[i] EXCEPT !.pc =
               IF archivos["./1.png"] = Ausente THEN "error" ELSE "borrar2"])
        /\ UNCHANGED <<data, poblacion, quinquenal, victimas, salida>>

\* os.remove("./2.png")
BorrarTabla ==
    \E i \in 1..NumInvocaciones :
        /\ invocaciones[i].pc = "borrar2"
        /\ archivos' = os_remove(archivos, "./2.png")
        /\ paso(i, [invocaciones[i] EXCEPT !.pc =
               IF archivos["./2.png"] = Ausente THEN "error" ELSE "fin"])
        /\ UNCHANGED <<data, poblacion, quinquenal, victimas, salida>>

\* The invocations of estatal.crear_mapa over one victim table.
InitTemporales ==
    /\ \E fd \in {"2024-03-01", "2023-11-20"} :
         data = <<fila(1, "MUJER", fd, NaN, "2000-07-15", "01", "001")>>
    /\ poblacion = PoblacionChica
    /\ quinquenal = Quinquenal
    /\ victimas = VictimasParcial
    /\ salida = Ninguna
    /\ archivos = SinArchivos
    /\ invocaciones = SinInvocaciones

NextTemporales ==
    \/ Llamar
    \/ EscribirMapa
    \/ EscribirTabla
    \/ AbrirMapa
    \/ AbrirTabla
    \/ Guardar
    \/ BorrarMapa
    \/ BorrarTabla

SpecTemporales == InitTemporales /\ [][NextTemporales]_vars

\* The number of rows of a victim table whose rows are reordered.
MaxOrden == 3

\* The rows of the victim table whose order matters: a woman and a man,
\* with rows that differ in the date and in the entity.
FilasOrden ==
    {fila(id, IF id = 1 THEN "MUJER" ELSE "HOMBRE", fd, NaN, "2000-07-15", ent, "001") :
        id \in 1..NumVictimas,
        fd \in {"2024-03-01", "2023-11-20"},
        ent \in {"01", "02"}}

\* data.csv is written again with two neighbouring rows of different
\* victims swapped: the rows of each victim keep their relative order, and
\* every such reordering of the file is a sequence of these swaps.
Permutar ==
    \E i \in 1..(Len(data) - 1) :
        /\ data[i].ID_VICTIMA # data[i + 1].ID_VICTIMA
        /\ data' = [data EXCEPT ![i] = data[i + 1], ![i + 1] = data[i]]
        /\ UNCHANGED <<poblacion, quinquenal, victimas, salida, archivos, invocaciones>>

\* The file starts with the rows of the victims in the order of their
\* identifiers.
InitOrden ==
    /\ data \in {s \in SeqHasta(FilasOrden, MaxOrden) :
                    \A i \in 1..(Len(s) - 1) : s[i].ID_VICTIMA <= s[i + 1].ID_VICTIMA}
    /\ poblacion = PoblacionChica
    /\ quinquenal = Quinquenal
    /\ victimas = VictimasParcial
    /\ salida = Ninguna
    /\ archivos = SinArchivos
    /\ invocaciones = SinInvocaciones

NextOrden ==
    \/ Permutar
    \/ TasaEdad
    \/ CrearMapaMunicipal
    \/ CrearMapaEstatal
    \/ DesaparecidosAnuales
    \/ ComparacionMensual

SpecOrden == InitOrden /\ [][NextOrden]_vars

(***************************************************************************)
(* Properties.                                                             *)
(***************************************************************************)
\* The reports that deduplicate the whole of data.csv.
ReportesNacionales ==
    {"tasa_edad", "municipal.crear_mapa", "estatal.crear_mapa",
     "tasa_municipios", "absolutos_municipios"}

\* The last row of the input that carries an identifier, as it is.
UltimaFila(df, id) ==
    df[Max({i \in 1..Len(df) : df[i].ID_VICTIMA = id})]

\* C1: for every victim identifier of the input the deduplicated table
\* holds exactly one record, and every field of it equals the field of the
\* last input row that carries the identifier, a missing field included.
C1_UltimaFilaCompleta ==
    salida.reporte \in ReportesNacionales =>
        /\ Len(salida.dedup) = Cardinality(Ids(data))
        /\ \A i \in 1..Len(salida.dedup) :
             salida.dedup[i] = UltimaFila(data, salida.dedup[i].ID_VICTIMA)

\* C2: the resolved event date of every canonical record is the primary
\* date when it parses, otherwise the secondary date when that parses,
\* otherwise undefined; no text raises; and a year-filtered report selects
\* exactly the records whose resolved date is in the requested year.
Resuelta(crudo) ==
    IF to_datetime(crudo.FECHA_DESAPARICION) # NaT
    THEN to_datetime(crudo.FECHA_DESAPARICION)
    ELSE IF to_datetime(crudo.FECHA_REGISTRO) # NaT
    THEN to_datetime(crudo.FECHA_REGISTRO)
    ELSE NaT

C2_FechaResuelta ==
    salida.reporte # "ninguno" =>
        /\ Len(salida.df) = Len(salida.dedup)
        /\ \A i \in 1..Len(salida.df) :
             /\ salida.df[i].ID_VICTIMA = salida.dedup[i].ID_VICTIMA
             /\ salida.df[i].FECHA_DESAPARICION = Resuelta(salida.dedup[i])
             /\ salida.dedup[i].FECHA_DESAPARICION = "2024-13-45" =>
                  salida.df[i].FECHA_DESAPARICION = to_datetime(salida.dedup[i].FECHA_REGISTRO)
             /\ salida.dedup[i].FECHA_DESAPARICION = "2023-11-20" =>
                  salida.df[i].FECHA_DESAPARICION = Fecha(2023, 11)
        /\ "sel" \in DOMAIN salida =>
             salida.sel = SelectSeq(salida.df, LAMBDA r :
                              r.FECHA_DESAPARICION # NaT
                              /\ r.FECHA_DESAPARICION.y = salida.anio)
        /\ salida.reporte = "desaparecidos_anuales" =>
             \A k \in 1..Len(salida.final) :
                salida.final[k].total =
                    Cardinality({i \in 1..Len(salida.df) :
                        /\ Resuelta(salida.dedup[i]) # NaT
                        /\ Resuelta(salida.dedup[i]).y = salida.final[k].anio})
        /\ salida.reporte = "comparacion_mensual" =>
             \A k \in 1..Len(salida.desaparecidos) :
                salida.desaparecidos[k].total =
                    Cardinality({i \in 1..Len(salida.df) :
                        /\ Resuelta(salida.dedup[i]) # NaT
                        /\ Resuelta(salida.dedup[i]).y = salida.desaparecidos[k].anio
                        /\ Resuelta(salida.dedup[i]).m = salida.desaparecidos[k].mes
                        /\ salida.desaparecidos[k].anio = salida.anio})

\* A record whose primary date does not parse and whose secondary date is
\* of the requested year is selected by a year-filtered report, and one
\* whose primary date is of another year than its secondary date is not
\* selected for the year of the secondary date.
C2_Testigo ==
    /\ salida.reporte \in ReportesNacionales
    /\ salida.anio = 2024
    /\ \E i \in 1..Len(salida.dedup) :
         /\ salida.dedup[i].FECHA_DESAPARICION = "2024-13-45"
         /\ salida.dedup[i].FECHA_REGISTRO = "2024-05-01"
         /\ \E k \in 1..Len(salida.sel) :
              salida.sel[k].ID_VICTIMA = salida.dedup[i].ID_VICTIMA
    /\ \E i \in 1..Len(salida.dedup) :
         /\ salida.dedup[i].FECHA_DESAPARICION = "2023-11-20"
         /\ salida.dedup[i].FECHA_REGISTRO = "2024-05-01"
         /\ \A k \in 1..Len(salida.sel) :
              salida.sel[k].ID_VICTIMA # salida.dedup[i].ID_VICTIMA

\* C3: a canonical record whose two dates are both missing or unparseable
\* is counted in no group of any report: it is not among the records a
\* year-filtered report selects, and the counts of the groups of a report
\* (age bands, municipalities, entities, years, months) add up to no more
\* than the records that have a resolved date.
Fechados(dedup) == {i \in 1..Len(dedup) : Resuelta(dedup[i]) # NaT}

C3_SinFechaNoCuenta ==
    salida.reporte # "ninguno" =>
        LET fechados == {salida.dedup[i].ID_VICTIMA : i \in Fechados(salida.dedup)}
        IN  /\ "sel" \in DOMAIN salida =>
                 /\ \A k \in 1..Len(salida.sel) : salida.sel[k].ID_VICTIMA \in fechados
                 /\ Len(salida.sel) <= Cardinality(fechados)
            /\ salida.reporte = "tasa_edad" =>
                 Suma(salida.final, "hombres") + Suma(salida.final, "mujeres")
                     <= Len(salida.sel)
            /\ "conteo" \in DOMAIN salida =>
                 Suma(salida.conteo, "total") <= Len(salida.sel)
            /\ salida.reporte = "desaparecidos_anuales" =>
                 Suma(salida.final, "total") = Cardinality(fechados)
            /\ salida.reporte = "comparacion_mensual" =>
                 Suma(salida.desaparecidos, "total") = Len(salida.sel)

\* A report has run on an input with a record without any valid date and a
\* dated record, and has counted the dated one only.
C3_Testigo ==
    /\ salida.reporte \in {"municipal.crear_mapa", "desaparecidos_anuales",
                           "comparacion_mensual"}
    /\ Len(salida.dedup) = 2
    /\ Cardinality(Fechados(salida.dedup)) = 1
    /\ \E i \in 1..2 :
         /\ salida.dedup[i].FECHA_DESAPARICION = "2024-13-45"
         /\ salida.dedup[i].FECHA_REGISTRO = NaN
    /\ salida.reporte = "municipal.crear_mapa" => Suma(salida.conteo, "total") = 1
    /\ salida.reporte = "desaparecidos_anuales" => Suma(salida.final, "total") = 1
    /\ salida.reporte = "comparacion_mensual" => Suma(salida.desaparecidos, "total") = 1

\* The selected records of a sex whose age, the difference of the years of
\* the event and of the birth, satisfies a condition.
DeEdad(sexo, P(_)) ==
    {k \in 1..Len(salida.sel) :
        /\ salida.sel[k].SEXO = sexo
        /\ salida.sel[k].FECHA_NACIMIENTO # NaT
        /\ P(salida.sel[k].FECHA_DESAPARICION.y - salida.sel[k].FECHA_NACIMIENTO.y)}

\* C4: every non-negative age falls in exactly one of the 18 bands, and the
\* last band has no upper end: every selected record of age 85 or more,
\* 121 included, is counted in the last band.
C4_UltimaBandaAbierta ==
    salida.reporte = "tasa_edad" =>
        /\ Len(salida.final) = 18
        /\ \A edad \in 0..130 :
             Cardinality({i \in 1..Len(EDADES) :
                 EDADES[i][1] <= edad /\ (edad <= EDADES[i][2] \/ i = Len(EDADES))}) = 1
        /\ salida.final[18].mujeres =
               Cardinality(DeEdad("MUJER", LAMBDA e : e >= 85))
        /\ salida.final[18].hombres =
               Cardinality(DeEdad("HOMBRE", LAMBDA e : e >= 85))

\* C5: the age is the year of the resolved event date minus the year of the
\* birth date, months and days ignored, and a record is counted in the band
\* (a, b) of its sex exactly when a <= age <= b; a birth in 2000 and an
\* event in 2024 give 24, counted in the band "20-24".
C5_EdadPorAnios ==
    salida.reporte = "tasa_edad" =>
        /\ \A i \in 1..Len(EDADES) :
             /\ salida.final[i].mujeres =
                  Cardinality(DeEdad("MUJER", LAMBDA e :
                      EDADES[i][1] <= e /\ e <= EDADES[i][2]))
             /\ salida.final[i].hombres =
                  Cardinality(DeEdad("HOMBRE", LAMBDA e :
                      EDADES[i][1] <= e /\ e <= EDADES[i][2]))
        /\ salida.final[5].edad = "20-24"
        /\ salida.anio = 2024 =>
             salida.final[5].mujeres =
                 Cardinality({k \in 1..Len(salida.sel) :
                     /\ salida.sel[k].SEXO = "MUJER"
                     /\ salida.sel[k].FECHA_NACIMIENTO = Fecha(2000, 7)})

\* A woman born in July 2000 who disappeared in March 2024, before her
\* birthday of that year, is counted in the band "20-24", and a man born in
\* 1939, of age 85 by the years, in the last band.
C5_Testigo ==
    /\ salida.reporte = "tasa_edad"
    /\ salida.anio = 2024
    /\ \E k \in 1..Len(salida.sel) :
         /\ salida.sel[k].SEXO = "MUJER"
         /\ salida.sel[k].FECHA_DESAPARICION = Fecha(2024, 3)
         /\ salida.sel[k].FECHA_NACIMIENTO = Fecha(2000, 7)
    /\ salida.final[5].mujeres = 1
    /\ salida.final[18].hombres = 1

\* C6: in the final rate table of every report each row has
\* rate = count / population * 100000, and no row has a missing or zero
\* population, nor a NaN or infinite rate.
C6_TasaDefinida ==
    salida.reporte # "ninguno" =>
        \A k \in 1..Len(salida.final) :
            LET r == salida.final[k]
            IN  /\ IsFin(r.pop)
                /\ r.pop.n # 0
                /\ IsFin(r.tasa)
                /\ r.tasa = Fin(r.total * 100000 * r.pop.d, r.pop.n)

\* The region codes the population table has an entry for.
ConPoblacion(cve) ==
    IF Len(cve) = 2 THEN cve \in entidades_pop ELSE fila_pop(cve) # 0

\* C7: in the entity map and in the municipal map an aggregated row whose
\* region code has no entry in the population table is absent from the
\* table that the colour scale, the map and the breakdown table use; the
\* rows that have an entry and a rate stay, in their order.
C7_SinPoblacionFuera ==
    salida.reporte \in {"municipal.crear_mapa", "estatal.crear_mapa"} =>
        /\ \A k \in 1..Len(salida.final) :
             /\ ConPoblacion(salida.final[k].CVE)
             /\ ~IsNaNf(salida.final[k].pop)
             /\ IsFin(salida.final[k].pop) => salida.final[k].pop.n >= 0
        /\ salida.final =
               SelectSeq(salida.conteo, LAMBDA r :
                   ConPoblacion(r.CVE) /\ ~IsNaNf(r.tasa))
        /\ salida.valor_min = Minimo(columna(salida.final, "tasa"))

\* A map has counted records of entity 99, which the population table does
\* not have, and records of an entity it has: the table of the map keeps
\* the latter only.
C7_Testigo ==
    /\ salida.reporte \in {"municipal.crear_mapa", "estatal.crear_mapa"}
    /\ \E k \in 1..Len(salida.conteo) : SubSeq(salida.conteo[k].CVE, 1, 2) = "99"
    /\ Len(salida.final) = 1
    /\ Len(salida.conteo) = 2

\* C8: every row of the table of tasa_municipios has a population of at
\* least 50,000, the table has at most 30 rows, and its rows are in
\* non-increasing order of rate.
C8_TopPorTasa ==
    salida.reporte = "tasa_municipios" =>
        /\ Len(salida.final) <= 30
        /\ \A k \in 1..Len(salida.final) :
             /\ IsFin(salida.final[k].pop)
             /\ salida.final[k].pop.n >= 50000 * salida.final[k].pop.d
             /\ IsFin(salida.final[k].tasa)
        /\ \A k \in 1..(Len(salida.final) - 1) :
             FLe(salida.final[k + 1].tasa, salida.final[k].tasa)

\* More than 30 municipalities of 50,000 inhabitants or more have records,
\* some municipality below the cutoff has records too, and the table holds
\* 30 rows of different rates, one of a municipality of exactly 50,000.
C8_Testigo ==
    /\ salida.reporte = "tasa_municipios"
    /\ Len(salida.final) = 30
    /\ Len(filtrar_poblacion(salida.conteo)) > 30
    /\ Len(filtrar_poblacion(salida.conteo)) < Len(salida.conteo)
    /\ \E k \in 1..30 : salida.final[k].pop = Num(50000)
    /\ FLt(salida.final[30].tasa, salida.final[1].tasa)

\* C9: in both maps valor_min is the minimum rate of the retained rows,
\* valor_max their 95th percentile, the 13 ticks are evenly spaced from
\* valor_min, the first tick, to valor_max, the last, without decreasing,
\* and only the label of the last tick has the "at least" qualifier.
C9_EscalaDeColor ==
    (salida.reporte \in {"municipal.crear_mapa", "estatal.crear_mapa"}
     /\ Len(salida.final) > 0) =>
        LET tasas == columna(salida.final, "tasa")
            m == salida.marcas
        IN  /\ \E k \in 1..Len(tasas) : salida.valor_min = tasas[k]
            /\ \A k \in 1..Len(tasas) : FLe(salida.valor_min, tasas[k])
            /\ salida.valor_max = quantile(tasas, 95, 100)
            /\ FLe(salida.valor_min, salida.valor_max)
            /\ Len(m) = 13
            /\ m[1] = salida.valor_min
            /\ m[13] = salida.valor_max
            /\ \A i \in 1..12 : FLe(m[i], m[i + 1])
            /\ \A i \in 1..11 : FSub(m[i + 1], m[i]) = FSub(m[i + 2], m[i + 1])
            /\ Len(salida.etiquetas) = 13
            /\ \A i \in 1..13 : (salida.etiquetas[i].prefijo = ">=") <=> (i = 13)

\* C10: comparacion_mensual draws, for the disappearances and for the
\* homicides, exactly 12 values, one per month of the requested year from
\* January to December, 0 for a month without records: the i-th value is
\* the count of the i-th label of MESES.
DesaparecidosDelMes(i) ==
    Cardinality({k \in 1..Len(salida.sel) : salida.sel[k].FECHA_DESAPARICION.m = i})

HomicidiosDelMes(i) ==
    Suma(SelectSeq(victimas, LAMBDA r :
             /\ salida.entidad_id = 0 \/ r.CVE_ENT = salida.entidad_id
             /\ r.DELITO \in {"Homicidio doloso", "Feminicidio"}
             /\ to_datetime(r.PERIODO) = Fecha(salida.anio, i)), "TOTAL")

C10_DoceMeses ==
    salida.reporte = "comparacion_mensual" =>
        /\ Len(salida.barras_desaparecidos) = 12
        /\ Len(salida.barras_homicidios) = 12
        /\ \A i \in 1..12 :
             /\ salida.barras_desaparecidos[i].x = MESES[i]
             /\ salida.barras_desaparecidos[i].y = DesaparecidosDelMes(i)
             /\ salida.barras_homicidios[i].x = MESES[i]
             /\ salida.barras_homicidios[i].y = HomicidiosDelMes(i)


\* The years of the resolved dates of the records of the yearly trend.
AniosConRegistros == {salida.df[i].FECHA_DESAPARICION.y : i \in Fechados(salida.dedup)}

RegistrosDelAnio(y) ==
    Cardinality({i \in Fechados(salida.dedup) : salida.df[i].FECHA_DESAPARICION.y = y})

\* C11 (as stated): in the yearly trend a calendar year without records has
\* no row: every row of the yearly table has total >= 1, the years between
\* two years that have records included.
C11_SinAniosVacios ==
    salida.reporte = "desaparecidos_anuales" =>
        \A k \in 1..Len(salida.final) : salida.final[k].total >= 1

\* C11 (amended): the yearly table has one row for each calendar year from
\* the first to the last year that has records, the last 20 of them, each
\* with the number of records of its year: a year without records before
\* the first or after the last year with records has no row, and one
\* between two years that have records has a row with total 0.
C11_AniosConsecutivos ==
    (salida.reporte = "desaparecidos_anuales" /\ AniosConRegistros # {}) =>
        LET primero == Min(AniosConRegistros)
            ultimo == Max(AniosConRegistros)
            n == IF ultimo - primero + 1 > 20 THEN 20 ELSE ultimo - primero + 1
        IN  /\ Len(salida.final) = n
            /\ \A k \in 1..n :
                 /\ salida.final[k].anio = ultimo - n + k
                 /\ salida.final[k].total = RegistrosDelAnio(ultimo - n + k)
            /\ salida.final[n].total >= 1
            /\ n < 20 => salida.final[1].total >= 1

\* The records are of 2022 and 2024: the table has the row of 2023, with 0.
C11_Testigo ==
    /\ salida.reporte = "desaparecidos_anuales"
    /\ AniosConRegistros = {2022, 2024}
    /\ Len(salida.final) = 3
    /\ salida.final[2].anio = 2023
    /\ salida.final[2].total = 0


\* The population of a year: of the rows of the population table of an
\* entity, or of all of them for the whole country.
PoblacionDe(entidad_id, anio) ==
    Suma(tabla([i \in 1..Len(poblacion) |->
            [p |-> IF entidad_id = 0
                      \/ SubSeq(poblacion[i].CVE, 1, 2) = dos_digitos(entidad_id)
                   THEN poblacion[i].pop[anio] ELSE 0]]), "p")

\* The victims of the homicide file that a report of an entity counts.
VictimasDe(entidad_id) ==
    SelectSeq(victimas, LAMBDA r :
        /\ r.DELITO \in {"Homicidio doloso", "Feminicidio"}
        /\ entidad_id = 0 \/ r.CVE_ENT = entidad_id)

\* C12: with entidad_id = 0 the yearly and monthly reports filter no entity:
\* the records of every entity code, 99 included, are counted and the
\* denominator is the population of all the entities; with another
\* entidad_id only rows whose CVE_ENT is that entity are counted (all of
\* them when every entity code of the file is a number) and the denominator
\* is the population of that entity.
C12_FiltroDeEntidad ==
    salida.reporte \in {"desaparecidos_anuales", "homicidios_anuales",
                        "comparacion_mensual"} =>
        LET e == salida.entidad_id
        IN  /\ "dedup" \in DOMAIN salida =>
                 /\ e = 0 => Ids(salida.dedup) = Ids(data)
                 /\ e # 0 =>
                      /\ \A i \in 1..Len(salida.dedup) :
                           salida.dedup[i].CVE_ENT = dos_digitos(e)
                      /\ (\A j \in 1..Len(data) : data[j].CVE_ENT # CONFIDENCIAL) =>
                           Ids(salida.dedup) =
                               {data[j].ID_VICTIMA : j \in
                                   {j \in 1..Len(data) : data[j].CVE_ENT = dos_digitos(e)}}
            /\ salida.reporte = "homicidios_anuales" =>
                 /\ salida.filas = VictimasDe(e)
                 /\ Suma(salida.final, "total") = Suma(VictimasDe(e), "TOTAL")
            /\ salida.reporte = "comparacion_mensual" =>
                 Suma(salida.homicidios, "total") =
                     Suma(SelectSeq(VictimasDe(e), LAMBDA r :
                              to_datetime(r.PERIODO).y = salida.anio), "TOTAL")
            /\ salida.reporte # "comparacion_mensual" =>
                 \A k \in 1..Len(salida.final) :
                     salida.final[k].anio \in {2023, 2024} =>
                         salida.final[k].pop = Num(PoblacionDe(e, salida.final[k].anio))

\* The yearly trend of the whole country has counted a record of entity 99
\* and one of entity 01, over the population of all the entities.
C12_Testigo ==
    /\ salida.reporte = "desaparecidos_anuales"
    /\ salida.entidad_id = 0
    /\ Len(salida.dedup) = 2
    /\ salida.dedup[1].CVE_ENT = "99"
    /\ salida.dedup[2].CVE_ENT = "01"
    /\ Len(salida.final) = 1
    /\ salida.final[1] =
           [anio |-> 2024, total |-> 2, pop |-> Num(250000), tasa |-> Fin(4, 5)]


\* The selected records of an entity code that the count of a report by
\* entity takes: those with a sex in the map, all of them in the comparison.
DeEntidad(cve) ==
    {k \in 1..Len(salida.sel) :
        /\ salida.sel[k].CVE_ENT = cve
        /\ salida.reporte = "estatal.crear_mapa" => salida.sel[k].SEXO # NaN}

TotalDeFila(r) ==
    IF salida.reporte = "estatal.crear_mapa" THEN r.total ELSE r.primero + r.segundo

\* C13: the records of the unknown entity 99 are not rejected and raise
\* nothing: in the counts by entity of the map and of the comparison of
\* two years they are a row of their own, named "Se desconoce" where the
\* rows are given names, and no other row counts them.
C13_EntidadDesconocida ==
    salida.reporte \in {"estatal.crear_mapa", "comparacion_anual"} =>
        /\ \A k \in 1..Len(salida.conteo) :
             TotalDeFila(salida.conteo[k]) = Cardinality(DeEntidad(salida.conteo[k].CVE))
        /\ DeEntidad("99") # {} =>
             /\ Cardinality({k \in 1..Len(salida.conteo) : salida.conteo[k].CVE = "99"}) = 1
             /\ salida.reporte = "comparacion_anual" =>
                  \A k \in 1..Len(salida.conteo) :
                      salida.conteo[k].CVE = "99" =>
                          salida.conteo[k].nombre = "Se desconoce"


\* The columns of the victim table.
Columnas ==
    {"SEXO", "FECHA_DESAPARICION", "FECHA_REGISTRO", "FECHA_NACIMIENTO",
     "CVE_ENT", "CVE_MUN", "ENTIDAD"}

\* C14: after the redaction step of a report no field of a canonical
\* record, in any column, holds "CONFIDENCIAL": each field that held it is
\* a missing value, and each field that did not is unchanged.
C14_Redaccion ==
    salida.reporte # "ninguno" /\ "redactado" \in DOMAIN salida =>
        /\ Len(salida.redactado) = Len(salida.dedup)
        /\ \A i \in 1..Len(salida.dedup) :
             /\ salida.redactado[i].ID_VICTIMA = salida.dedup[i].ID_VICTIMA
             /\ \A c \in Columnas :
                  /\ salida.redactado[i][c] # "CONFIDENCIAL"
                  /\ salida.dedup[i][c] = "CONFIDENCIAL" => salida.redactado[i][c] = "NaN"
                  /\ salida.dedup[i][c] # "CONFIDENCIAL" =>
                       salida.redactado[i][c] = salida.dedup[i][c]

\* A report has redacted a record whose municipality code and birth date
\* were confidential and whose sex and entity code were not.
C14_Testigo ==
    /\ salida.reporte \in {"tasa_edad", "comparacion_anual"}
    /\ \E i \in 1..Len(salida.dedup) :
         /\ salida.dedup[i].CVE_MUN = "CONFIDENCIAL"
         /\ salida.dedup[i].FECHA_NACIMIENTO = "CONFIDENCIAL"
         /\ salida.redactado[i].CVE_MUN = "NaN"
         /\ salida.redactado[i].FECHA_NACIMIENTO = "NaN"
         /\ salida.redactado[i].SEXO = "MUJER"
         /\ salida.redactado[i].CVE_ENT = "01"


\* The records of a table, as a set.
Registros(t) == {t[i] : i \in 1..Len(t)}

\* C15: the deduplication of a table that has exactly one row per victim
\* identifier returns the same set of records with every field unchanged:
\* so it is for an input file with one row per identifier, and for the
\* deduplicated table itself.
C15_Idempotencia ==
    salida.reporte \in ReportesNacionales =>
        /\ Cardinality(Ids(data)) = Len(data) =>
             Registros(salida.dedup) = Registros(data)
        /\ Cardinality(Ids(salida.dedup)) = Len(salida.dedup)
        /\ Registros(groupby_last(salida.dedup)) = Registros(salida.dedup)

\* A report has deduplicated a file of two victims with one row each, the
\* row of the greater identifier first and with fields that are missing.
C15_Testigo ==
    /\ salida.reporte = "tasa_municipios"
    /\ Len(data) = 2
    /\ data[1].ID_VICTIMA > data[2].ID_VICTIMA
    /\ data[1].FECHA_REGISTRO = NaN
    /\ salida.dedup = <<data[2], data[1]>>


\* The report type and the parameters of the run that left an output.
Corrida(s) ==
    [c \in DOMAIN s \cap {"reporte", "anio", "entidad_id", "primer_anio", "segundo_anio"}
        |-> s[c]]

\* C16: the name of the image file of a report is an injective function of
\* the report type and its parameters: a run never writes to the file of
\* the run before it when the two differ in report type, year, entity or
\* pair of years.
C16_ArchivosDistintos ==
    [][(salida.reporte # "ninguno" /\ Corrida(salida') # Corrida(salida))
           => salida'.archivo # salida.archivo]_vars


\* The files that the reports read.
ArchivosDeEntrada ==
    {"./data.csv", "./assets/poblacion.csv",
     "./assets/poblacion_quinquenal/hombres.csv",
     "./assets/poblacion_quinquenal/mujeres.csv",
     "./assets/timeseries_victimas.csv",
     "./assets/mexico.json", "./assets/municipios.json"}

\* The files that a run writes, and those it removes.
Escritos(s) ==
    {s.archivo} \cup (IF "temporales" \in DOMAIN s THEN s.temporales ELSE {})

Borrados(s) == IF "borrados" \in DOMAIN s THEN s.borrados ELSE {}

Claves(reporte) ==
    CASE reporte = "tasa_edad" -> {"SEXO"}
      [] reporte = "municipal.crear_mapa" -> {"CVE_ENT", "CVE_MUN"}
      [] reporte = "estatal.crear_mapa" -> {"CVE_ENT", "SEXO"}
      [] reporte = "comparacion_anual" -> {"CVE_ENT"}

\* The selected records none of whose grouping keys was confidential.
ConClavePublica ==
    {k \in 1..Len(salida.sel) :
        \E i \in 1..Len(salida.dedup) :
            /\ salida.dedup[i].ID_VICTIMA = salida.sel[k].ID_VICTIMA
            /\ \A c \in Claves(salida.reporte) : salida.dedup[i][c] # "CONFIDENCIAL"}

\* The number of records that the groups of a report count.
Contados ==
    CASE salida.reporte = "tasa_edad" ->
             Suma(salida.final, "hombres") + Suma(salida.final, "mujeres")
      [] salida.reporte = "comparacion_anual" ->
             Suma(salida.conteo, "primero") + Suma(salida.conteo, "segundo")
      [] OTHER -> Suma(salida.conteo, "total")

\* C18: a report deduplicates, then redacts, then parses the dates, then
\* filters the year, then counts by key: the redaction comes before every
\* count and join, so no group key is or contains "CONFIDENCIAL" and a
\* record one of whose grouping keys was confidential is counted in no
\* group.
C18_RedaccionAntesDeContar ==
    salida.reporte \in {"tasa_edad", "municipal.crear_mapa", "estatal.crear_mapa",
                        "comparacion_anual"} =>
        /\ Len(salida.redactado) = Len(salida.dedup)
        /\ Len(salida.df) = Len(salida.redactado)
        /\ \A i \in 1..Len(salida.df) :
             \A c \in {"SEXO", "CVE_ENT", "CVE_MUN", "ENTIDAD"} :
                 /\ salida.df[i][c] = salida.redactado[i][c]
                 /\ salida.df[i][c] # "CONFIDENCIAL"
        /\ Registros(salida.sel) \subseteq Registros(salida.df)
        /\ "conteo" \in DOMAIN salida =>
             \A k \in 1..Len(salida.conteo) :
                 /\ Len(salida.conteo[k].CVE) \in {2, 5}
                 /\ \A j \in 1..Len(salida.conteo[k].CVE) :
                        es_digito(car(salida.conteo[k].CVE, j))
        /\ IF salida.reporte = "tasa_edad"
           THEN Contados <= Cardinality(ConClavePublica)
           ELSE Contados = Cardinality(ConClavePublica)

\* A map has counted one of two selected records: the other one had a
\* confidential municipality code, or a confidential sex.
C18_Testigo ==
    /\ salida.reporte \in {"municipal.crear_mapa", "estatal.crear_mapa"}
    /\ Len(salida.sel) = 2
    /\ Contados = 1
    /\ \E i \in 1..Len(salida.dedup) :
         /\ salida.dedup[i].CVE_ENT = "01"
         /\ salida.dedup[i].CVE_MUN = "CONFIDENCIAL" \/ salida.dedup[i].SEXO = "CONFIDENCIAL"


\* C19: in the entity map and in the municipal map a region whose
\* population is 0 is dropped before the colour scale is computed: every
\* rate that enters the minimum, the 95th percentile and the map is a
\* finite number, and so are the two ends of the scale.
C19_TasasFinitas ==
    salida.reporte \in {"municipal.crear_mapa", "estatal.crear_mapa"} =>
        /\ \A k \in 1..Len(salida.final) :
             /\ salida.final[k].pop # Num(0)
             /\ IsFin(salida.final[k].tasa)
        /\ Len(salida.final) > 0 =>
             /\ IsFin(salida.valor_min)
             /\ IsFin(salida.valor_max)

\* C20: the table of absolutos_municipios has at most 30 rows, in
\* non-increasing order of the count, and a municipality without an entry
\* in the population table is dropped before the ranking: no row has a
\* missing name, a missing population or an undefined rate.
C20_TablaDeAbsolutos ==
    salida.reporte = "absolutos_municipios" =>
        /\ Len(salida.final) <= 30
        /\ \A k \in 1..(Len(salida.final) - 1) :
             salida.final[k].total >= salida.final[k + 1].total
        /\ \A k \in 1..Len(salida.final) :
             /\ salida.final[k].nombre # NaN
             /\ IsFin(salida.final[k].pop)
             /\ IsFin(salida.final[k].tasa)

\* The number of selected records of a municipality.
RegistrosDelMunicipio(cve) ==
    Cardinality({k \in 1..Len(salida.sel) :
        /\ salida.sel[k].CVE_ENT # NaN
        /\ salida.sel[k].CVE_MUN # NaN
        /\ salida.sel[k].CVE_ENT \o salida.sel[k].CVE_MUN = cve})

\* E: the rows of the population table of the municipalities that have a
\* record in the year and 50,000 inhabitants or more.
Elegibles ==
    {i \in 1..Len(poblacion) :
        /\ poblacion[i].pop[salida.anio] >= 50000
        /\ RegistrosDelMunicipio(poblacion[i].CVE) >= 1}

\* The rate of a row of the population table is greater than that of
\* another one: the counts are compared over the populations.
TasaMayor(i, j) ==
    RegistrosDelMunicipio(poblacion[i].CVE) * poblacion[j].pop[salida.anio]
        > RegistrosDelMunicipio(poblacion[j].CVE) * poblacion[i].pop[salida.anio]

\* The rows of the population table that the table of the report shows.
Incluidos ==
    {i \in Elegibles :
        \E k \in 1..Len(salida.final) : salida.final[k].CVE = poblacion[i].CVE}

\* C21: tasa_municipios returns the top of the ranking: with E the
\* municipalities with a record in the year and 50,000 inhabitants or
\* more, the table has min(30, |E|) rows, all of E, no municipality of E
\* left out has a rate greater than one included, and the positions are
\* 1..k in the order of the table, by non-increasing rate.
C21_TopDelRanking ==
    salida.reporte = "tasa_municipios" =>
        /\ Len(salida.final) = Min({30, Cardinality(Elegibles)})
        /\ Cardinality(Incluidos) = Len(salida.final)
        /\ \A i \in Elegibles \ Incluidos : \A j \in Incluidos : ~TasaMayor(i, j)
        /\ Len(salida.pos) = Len(salida.final)
        /\ \A k \in 1..Len(salida.pos) : salida.pos[k] = k
        /\ \A k \in 1..(Len(salida.final) - 1) :
             ~FLt(salida.final[k].tasa, salida.final[k + 1].tasa)

\* More than 30 municipalities are eligible: the table shows 30 of them
\* at the positions 1 to 30 and leaves one out, whose rate is that of the
\* last one shown and smaller than that of the first.
C21_Testigo ==
    /\ salida.reporte = "tasa_municipios"
    /\ Cardinality(Elegibles) > 30
    /\ Cardinality(Incluidos) = 30
    /\ salida.pos[30] = 30
    /\ \E i \in Elegibles \ Incluidos :
         /\ \A j \in Incluidos : ~TasaMayor(i, j)
         /\ \E j \in Incluidos : TasaMayor(j, i)
         /\ \E j \in Incluidos : ~TasaMayor(j, i)

\* The sum, for one year, of the rows of the population table whose code
\* starts with a prefix: all the rows for the empty prefix.
PoblacionConPrefijo(prefijo, anio) ==
    LET filas == SelectSeq(poblacion, LAMBDA r :
                     SubSeq(r.CVE, 1, Len(prefijo)) = prefijo)
    IN  Suma(tabla([i \in 1..Len(filas) |-> [p |-> filas[i].pop[anio]]]), "p")

\* C22: in estatal.py the population of an entity is, for every year, the
\* sum of the rows of the population table whose code starts with the two
\* digits of the entity, and the national population is the sum over all
\* the entities, which is the sum of all the rows of the table.
C22_PoblacionAgregada ==
    /\ salida.reporte = "estatal.crear_mapa" =>
         /\ \A k \in 1..Len(salida.conteo) :
              salida.conteo[k].CVE \in entidades_pop =>
                  salida.conteo[k].pop =
                      Num(PoblacionConPrefijo(salida.conteo[k].CVE, salida.anio))
         /\ salida.poblacion_nacional = PoblacionConPrefijo("", salida.anio)
    /\ salida.reporte = "desaparecidos_anuales" =>
         \A k \in 1..Len(salida.final) :
             salida.final[k].anio \in anios_pop =>
                 salida.final[k].pop =
                     Num(PoblacionConPrefijo(
                             IF salida.entidad_id = 0 THEN ""
                             ELSE dos_digitos(salida.entidad_id),
                             salida.final[k].anio))

\* The entity map of 2024 has a row of entity 01, whose population is the
\* sum of its two municipalities, and a national population that is the
\* sum of the four municipalities of the table.
C22_Testigo ==
    /\ salida.reporte = "estatal.crear_mapa"
    /\ salida.anio = 2024
    /\ \E k \in 1..Len(salida.conteo) :
         /\ salida.conteo[k].CVE = "01"
         /\ salida.conteo[k].pop = Num(140000)
    /\ salida.poblacion_nacional = 250000

\* C23: estatal.crear_mapa uses the fixed temporary files ./1.png and
\* ./2.png.  An invocation that has run with no other invocation under way
\* has composed the map and the table that it has written itself, has not
\* failed, and on its return both temporary files are removed unless a
\* later invocation has written them again; when the invocations
\* interleave, an invocation composes an image of another one or finds
\* its temporary file removed.
C23_TemporalesFijos ==
    \A i \in 1..NumInvocaciones :
        invocaciones[i].exclusiva =>
            /\ invocaciones[i].pc # "error"
            /\ invocaciones[i].pc \in {"guardar", "borrar1", "borrar2", "fin"} =>
                 /\ invocaciones[i].imagen1 =
                        [imagen |-> "mapa", anio |-> invocaciones[i].anio,
                         invocacion |-> i]
                 /\ invocaciones[i].imagen2 =
                        [imagen |-> "tabla", anio |-> invocaciones[i].anio,
                         invocacion |-> i]
            /\ invocaciones[i].pc = "fin" =>
                 \A n \in {"./1.png", "./2.png"} : archivos[n].invocacion # i

\* One invocation has returned after running on its own, with its own map
\* and table in the composite; of two others that have interleaved, for
\* different years, one has saved a composite whose map is of the other
\* one and the other one has found ./1.png removed.
C23_Testigo ==
    \E i, j, k \in 1..NumInvocaciones :
        /\ invocaciones[i].pc = "fin"
        /\ invocaciones[i].exclusiva
        /\ invocaciones[i].imagen1.invocacion = i
        /\ invocaciones[i].imagen2.invocacion = i
        /\ invocaciones[j].pc = "fin"
        /\ invocaciones[j].imagen1.invocacion = k
        /\ invocaciones[j].anio # invocaciones[k].anio
        /\ archivos["./estatal_" \o ToString(invocaciones[j].anio) \o ".png"].invocacion = j
        /\ invocaciones[k].pc = "error"

\* C24: in desaparecidos_anuales and comparacion_mensual of one entity the
\* canonical record of a victim is the one the national report uses, the
\* last of all the rows of the victim: every record that the report of
\* the entity counts is a canonical record of the whole file, so a victim
\* is counted under the entity of its final record only and the counts of
\* the entities add up to the national count.
C24_RegistroCanonicoNacional ==
    (salida.reporte \in {"desaparecidos_anuales", "comparacion_mensual"}
     /\ salida.entidad_id # 0) =>
        Registros(salida.dedup) \subseteq Registros(groupby_last(data))

\* The selected records with a sex of the table, a birth date and an age,
\* by the years, from 0 to 120.
EnAlgunaCelda ==
    {k \in 1..Len(salida.sel) :
        /\ salida.sel[k].SEXO \in {"MUJER", "HOMBRE"}
        /\ salida.sel[k].FECHA_NACIMIENTO # NaT
        /\ salida.sel[k].FECHA_DESAPARICION.y - salida.sel[k].FECHA_NACIMIENTO.y
               \in 0..120}

\* The sum of the 36 cells of the table of tasa_edad.
SumaDeCeldas == Suma(salida.final, "mujeres") + Suma(salida.final, "hombres")

\* C25: in tasa_edad a canonical record of the year is counted in at most
\* one cell of age band and sex; the 36 cells add up to the number of
\* records with a sex in {MUJER, HOMBRE}, a birth date and an age from 0
\* to 120, hence to at most the number of records of the year, and to that
\* number exactly when every record is such; a record of unknown sex,
\* without birth date or of negative age is in no cell.
C25_ConservacionDeConteos ==
    salida.reporte = "tasa_edad" =>
        /\ \A edad \in -5..130 :
             Cardinality({i \in 1..Len(EDADES) :
                 EDADES[i][1] <= edad /\ edad <= EDADES[i][2]})
                 = IF edad \in 0..120 THEN 1 ELSE 0
        /\ SumaDeCeldas = Cardinality(EnAlgunaCelda)
        /\ SumaDeCeldas <= Len(salida.sel)
        /\ (SumaDeCeldas = Len(salida.sel)) <=> (EnAlgunaCelda = 1..Len(salida.sel))

\* Of the two records of 2023, that of a woman born in 1903, of age 120,
\* is in the last band and that of a man born in 2024, of age -1, is in no
\* cell.
C25_Testigo ==
    /\ salida.reporte = "tasa_edad"
    /\ salida.anio = 2023
    /\ Len(salida.sel) = 2
    /\ \E k \in 1..2 :
         /\ salida.sel[k].SEXO = "MUJER"
         /\ salida.sel[k].FECHA_NACIMIENTO = Fecha(1903, 9)
    /\ \E k \in 1..2 :
         /\ salida.sel[k].SEXO = "HOMBRE"
         /\ salida.sel[k].FECHA_NACIMIENTO = Fecha(2024, 1)
    /\ salida.final[18].mujeres = 1
    /\ SumaDeCeldas = 1

\* The selected records that a map counts: those with every key of the
\* region, and the sex in the entity map.
ContadosEnElMapa ==
    {k \in 1..Len(salida.sel) :
        /\ salida.sel[k].CVE_ENT # NaN
        /\ IF salida.reporte = "municipal.crear_mapa"
           THEN salida.sel[k].CVE_MUN # NaN
           ELSE salida.sel[k].SEXO # NaN /\ salida.sel[k].ENTIDAD # NaN}

\* The region code of a selected record in a map.
RegionDe(k) ==
    IF salida.reporte = "municipal.crear_mapa"
    THEN salida.sel[k].CVE_ENT \o salida.sel[k].CVE_MUN
    ELSE salida.sel[k].CVE_ENT

\* C26: in both maps the national figure of the subtitle is computed
\* before the rows without population are dropped: its numerator is the
\* sum of the counts of all the aggregated rows, those of regions without
\* a denominator (entity 99) included, and its denominator is the sum of
\* the population of all the regions of the population table: the national
\* count is at least the sum of the counts of the rows that remain.
C26_CifraNacional ==
    salida.reporte \in {"municipal.crear_mapa", "estatal.crear_mapa"} =>
        /\ salida.total_nacional = Cardinality(ContadosEnElMapa)
        /\ salida.poblacion_nacional = PoblacionConPrefijo("", salida.anio)
        /\ salida.total_nacional >= Suma(salida.final, "total")
        /\ salida.total_nacional - Suma(salida.final, "total") =
               Cardinality({k \in ContadosEnElMapa : ~ConPoblacion(RegionDe(k))})

\* A map has counted a record of entity 99 and a record of entity 01: the
\* national count is 2 and the rate table, without entity 99, counts 1.
C26_Testigo ==
    /\ salida.reporte \in {"municipal.crear_mapa", "estatal.crear_mapa"}
    /\ salida.total_nacional = 2
    /\ Suma(salida.final, "total") = 1
    /\ salida.poblacion_nacional = 250000
    /\ \E k \in ContadosEnElMapa : salida.sel[k].CVE_ENT = "99"
    /\ \E k \in ContadosEnElMapa : salida.sel[k].CVE_ENT = "01"

\* The aggregated counts of a report: per age band and sex, per
\* municipality, per entity, per year, per month.
Conteos(s) ==
    CASE s.reporte = "tasa_edad" ->
             {<<s.final[i].edad, s.final[i].mujeres, s.final[i].hombres>> :
                 i \in 1..Len(s.final)}
      [] s.reporte \in {"municipal.crear_mapa", "estatal.crear_mapa"} ->
             Registros(s.conteo)
      [] s.reporte = "desaparecidos_anuales" ->
             {<<s.final[i].anio, s.final[i].total>> : i \in 1..Len(s.final)}
      [] s.reporte = "comparacion_mensual" ->
             {<<i, s.desaparecidos[i].total>> : i \in 1..Len(s.desaparecidos)}
      [] OTHER -> {}

\* C27: a permutation of the rows of the victim table that keeps the
\* relative order of the rows of each victim leaves every aggregated count
\* as it was: a report that runs again, with the same parameters, on the
\* permuted file gives the counts of the run before.
C27_OrdenEntreVictimas ==
    [][(salida.reporte # "ninguno" /\ Corrida(salida') = Corrida(salida))
           => Conteos(salida') = Conteos(salida)]_vars

\* A report has run on a file of three rows in which a row of victim 2
\* stands between the two rows of victim 1, which differ in the entity and
\* in the year: it has taken the last row of each victim.
C27_Testigo ==
    /\ salida.reporte = "estatal.crear_mapa"
    /\ Len(data) = 3
    /\ data[1].ID_VICTIMA = 1
    /\ data[2].ID_VICTIMA = 2
    /\ data[3].ID_VICTIMA = 1
    /\ data[1].CVE_ENT # data[3].CVE_ENT
    /\ data[1].FECHA_DESAPARICION # data[3].FECHA_DESAPARICION
    /\ salida.dedup = groupby_last(data)
    /\ Len(salida.sel) = 2
    /\ Suma(salida.conteo, "total") = 2

\* The last row that the file has of a victim.
UltimaFilaDe(id) ==
    data[Max({j \in 1..Len(data) : data[j].ID_VICTIMA = id})]

\* The selected records whose victim has no confidential grouping key in
\* its last row.
SinClaveReservada ==
    {k \in 1..Len(salida.sel) :
        \A c \in Claves(salida.reporte) :
            UltimaFilaDe(salida.sel[k].ID_VICTIMA)[c] # CONFIDENCIAL}

\* C28: the deduplication runs before the redaction and takes the sentinel
\* as a value: when the last row of a victim holds "CONFIDENCIAL" in a
\* field, the field of the canonical record is the sentinel and is missing
\* after the redaction, whatever an earlier row of the victim holds, and a
\* record whose grouping key is such a field is counted in no group.
C28_CentinelaEnLaUltimaFila ==
    salida.reporte \in {"tasa_edad", "municipal.crear_mapa", "estatal.crear_mapa",
                        "comparacion_anual"} =>
        /\ \A i \in 1..Len(salida.dedup) :
             \A c \in Columnas :
                 UltimaFilaDe(salida.dedup[i].ID_VICTIMA)[c] = CONFIDENCIAL =>
                     /\ salida.dedup[i][c] = CONFIDENCIAL
                     /\ salida.redactado[i][c] = NaN
        /\ Contados <= Cardinality(SinClaveReservada)

\* The first row of a victim holds a sex and the last row of the same
\* victim holds the sentinel in its place: the record, of the year of the
\* entity map, is in no row of the map.
C28_Testigo ==
    /\ salida.reporte = "estatal.crear_mapa"
    /\ Len(data) = 2
    /\ data[1].ID_VICTIMA = data[2].ID_VICTIMA
    /\ data[1].SEXO = "MUJER"
    /\ data[2].SEXO = CONFIDENCIAL
    /\ data[2].CVE_ENT = "01"
    /\ Len(salida.sel) = 1
    /\ salida.redactado[1].SEXO = NaN
    /\ Contados = 0

\* C29: in comparacion_anual the national row counts, for each of the two
\* years, the sum of the counts of the rows of the entities, the unknown
\* one included; the change of every row is (second - first) / first * 100,
\* that of the national row from its summed counts; and the change of
\* every row is a finite number, also for an entity without records in
\* the first year.
C29_CambioPorcentual ==
    salida.reporte = "comparacion_anual" =>
        /\ Len(salida.final) = Len(salida.conteo) + 1
        /\ \E k \in 1..Len(salida.final) :
             /\ salida.final[k].nombre = "<b>Nacional</b>"
             /\ salida.final[k].primero = Suma(salida.conteo, "primero")
             /\ salida.final[k].segundo = Suma(salida.conteo, "segundo")
        /\ \A k \in 1..Len(salida.final) :
             LET r == salida.final[k]
             IN  /\ IsFin(r.cambio)
                 /\ r.primero # 0
                 /\ r.cambio = Fin((r.segundo - r.primero) * 100, r.primero)
====
